---- MODULE Spec2Model ----
(***************************************************************************)
(* Model of the chat backend in src/backend/src: the Flask chat route      *)
(* (Routes.py), the stream controller ChatAPI.stream_response (ChatApi.py),*)
(* the Conversation session (Conversation.py), the SQLite turn store       *)
(* (Database.py) and the thread -> asyncio token relay of                  *)
(* CustomHuggingFaceChatModel._astream (ChatModel.py).                     *)
(*                                                                         *)
(* Spec runs the requests of one user on one conversation id, one after    *)
(* the other; SpecReg runs concurrent request threads on the session       *)
(* registry and SpecPair two requests streaming at once; SpecOwn runs the  *)
(* routes of two users on shared conversation ids, and SpecLegacy the      *)
(* in-memory app of src/backend/app.py.  Texts are                         *)
(* sequences of atoms (strings); the atoms " " and "\n" are whitespace.    *)
(* The wall clock advances by one tick at every                            *)
(* datetime.now().  The streamer between the generate thread and the       *)
(* forwarding thread is a private FIFO: a fragment enters the model when   *)
(* the forwarding thread receives it.  MaxTokens bounds the fragments      *)
(* generated over a whole run.  The event loop of a request runs in passes *)
(* of _run_once: the handles ready when a pass begins run in that pass,    *)
(* and run_until_complete returns at the end of the pass in which its      *)
(* done-callback has stopped the loop.  SpecRun and SpecWarmRun are the    *)
(* last two requests of a run whose earlier requests were refused.  In     *)
(* SpecReg and SpecOwn a thread can be preempted at every store or file    *)
(* call, between constructing a session and assigning it to the registry   *)
(* and, in SpecOwn, at every frame handed to the server and before a       *)
(* route returns its answer.                                               *)
(***************************************************************************)
EXTENDS Integers, Sequences, FiniteSets, TLC

(* ------------------------------ bounds --------------------------------- *)
MaxRequests == 2
MaxTokens == 2
MaxFaults == 1
max_history == 1
TicksPerSecond == 2
MaxFnLen == 3
MaxFnMax == 2
MaxThreads == 2
MaxCalls == 4
MaxPairTokens == 2
MaxOwnCalls == 3
MaxLegacyRequests == 3
MaxLegacyTokens == 1

(* ----------------------------- constants ------------------------------- *)
\* src/backend/app.py line 22
MAX_HISTORY == 5

(* ------------------------------ inputs --------------------------------- *)
\* the i-th fragment of a generation is its own visible text, so that a
\* reordered or duplicated delivery differs from the production; a fragment
\* at an even position may instead be whitespace only
Letters == <<"a", "b", "c", "d">>
TokensAt(i) == IF i % 2 = 0 THEN {<<Letters[i]>>, <<" ">>} ELSE {<<Letters[i]>>}
ClientMessages == {<<>>, <<"hi">>}
\* the outcomes of query_rag: it returns a non-empty text (the retrieved
\* passages with their sources, or a sentence saying that nothing relevant
\* was found), or the embedding service or the vector store raises
Contexts == {[raises |-> FALSE, text |-> <<"ctx">>],
             [raises |-> TRUE, text |-> <<"query_rag failed">>]}
Titles == {<<"Greeting">>}
system_prompt == <<"You are a helpful assistant.">>
\* conversation ids of the one user, and the request threads of the server
ConversationIds == {"c1", "c2"}
Threads == 1..MaxThreads
\* the logged-in users (session['user_id'])
Users == {"u1", "u2"}
\* two chat requests in flight at once, on different conversations; the
\* fragments generated for one differ from those generated for the other
Requests == {1, 2}
PairLetters == << <<"a", "b", "c">>, <<"d", "e", "f">> >>
FragmentOf(r, i) == <<PairLetters[r][i]>>

(* ------------------------------ text ----------------------------------- *)
RECURSIVE LStrip(_)
LStrip(s) == IF s = <<>> THEN <<>>
             ELSE IF Head(s) \in {" ", "\n"} THEN LStrip(Tail(s)) ELSE s

RECURSIVE RStrip(_)
RStrip(s) == IF s = <<>> THEN <<>>
             ELSE IF s[Len(s)] \in {" ", "\n"}
                  THEN RStrip(SubSeq(s, 1, Len(s) - 1)) ELSE s

Strip(s) == RStrip(LStrip(s))

(* ---------------------------- timestamps ------------------------------- *)
\* datetime.isoformat(): the fractional part is omitted when it is zero.
IsoFormat(t) == IF t % TicksPerSecond = 0 THEN <<t \div TicksPerSecond>>
                ELSE <<t \div TicksPerSecond, t % TicksPerSecond>>

\* datetime.fromisoformat()
FromIsoFormat(s) == IF Len(s) = 1 THEN s[1] * TicksPerSecond
                    ELSE s[1] * TicksPerSecond + s[2]

\* SQLite BINARY collation on the TEXT column: lexicographic, a proper
\* prefix sorts first.
RECURSIVE TextLess(_, _)
TextLess(a, b) == IF b = <<>> THEN FALSE
                  ELSE IF a = <<>> THEN TRUE
                  ELSE IF Head(a) < Head(b) THEN TRUE
                  ELSE IF Head(a) > Head(b) THEN FALSE
                  ELSE TextLess(Tail(a), Tail(b))

(* ------------------------------ records -------------------------------- *)
\* Conversation.Message; req is the number of the request that created it.
Message(role, content, timestamp, req) ==
    [role |-> role, content |-> content, timestamp |-> timestamp, req |-> req]

\* a row of table conversation_messages, in rowid order in db_messages.
Row(role, content, timestamp, req) ==
    [role |-> role, content |-> content, timestamp |-> timestamp, req |-> req]

\* relay items: a text fragment, the None sentinel of the asyncio queue.
TokenItem(t) == [kind |-> "token", text |-> t]
NoneItem == [kind |-> "none", text |-> <<>>]

\* handles in the event loop's ready queue
CbHandle(item) == [h |-> "cb", item |-> item]
PutHandle(item) == [h |-> "put", item |-> item]
WakeHandle == [h |-> "wake", item |-> NoneItem]
StopHandle == [h |-> "stop", item |-> NoneItem]

\* server-sent frames
TokenFrame(t) == [kind |-> "token", text |-> t, continuing |-> TRUE]
\* a title frame that wrongly ends the stream
TitleFrameTerminal(t) == [kind |-> "title", text |-> t, continuing |-> FALSE]
TitleFrame(t) == [kind |-> "title", text |-> t, continuing |-> TRUE]
FinalFrame == [kind |-> "final", text |-> <<>>, continuing |-> FALSE]
\* an error frame that leaves the stream open
ErrorFrameContinuing(e) == [kind |-> "error", text |-> e, continuing |-> TRUE]
ErrorFrame(e) == [kind |-> "error", text |-> e, continuing |-> FALSE]

(* ------------------------------ store ---------------------------------- *)
\* An INSERT OR REPLACE keyed on the timestamp: the assistant row, saved
\* with the user turn's timestamp, would take the place of the user row.
save_message_replacing(rows, row) ==
    IF rows # <<>> /\ rows[Len(rows)].timestamp = row.timestamp
    THEN [rows EXCEPT ![Len(rows)] = row]
    ELSE Append(rows, row)

\* An INSERT that is never committed: the row is lost.
save_message_uncommitted(rows, row) == rows

\* Database.save_message: INSERT of one row, committed.
save_message(rows, row) == Append(rows, row)

\* ORDER BY timestamp DESC: the order a wrong sort direction would give.
RECURSIVE InsertByTimestampDesc(_, _)
InsertByTimestampDesc(sorted, r) ==
    IF sorted = <<>> THEN <<r>>
    ELSE IF TextLess(Head(sorted).timestamp, r.timestamp) THEN <<r>> \o sorted
    ELSE <<Head(sorted)>> \o InsertByTimestampDesc(Tail(sorted), r)

\* ORDER BY timestamp ASC as this SQLite build executes it: rows are scanned
\* in rowid order through idx_messages_conversation_id and sorted by the
\* timestamp text; rows with equal timestamps keep their scan order.
RECURSIVE InsertByTimestamp(_, _)
InsertByTimestamp(sorted, r) ==
    IF sorted = <<>> THEN <<r>>
    ELSE IF TextLess(r.timestamp, Head(sorted).timestamp) THEN <<r>> \o sorted
    ELSE <<Head(sorted)>> \o InsertByTimestamp(Tail(sorted), r)

RECURSIVE OrderByTimestamp(_)
OrderByTimestamp(rows) ==
    IF rows = <<>> THEN <<>>
    ELSE InsertByTimestamp(OrderByTimestamp(SubSeq(rows, 1, Len(rows) - 1)),
                           rows[Len(rows)])

\* Database.get_conversation_messages
get_conversation_messages(rows) == OrderByTimestamp(rows)

\* a value of column title: Python None (SQL NULL) or a text.
NoneTitle == [none |-> TRUE, text |-> <<>>]
TextTitle(t) == [none |-> FALSE, text |-> t]

\* the row of table user_conversations for the conversation id, if any.
NoRecord == [present |-> FALSE, title |-> NoneTitle]

\* no file written by save_history for a conversation id.  A file is valid
\* when its text is the JSON of a history, whose messages it then holds;
\* length stands for the length of its text, which grows with the number of
\* messages written.
NoFile == [present |-> FALSE, valid |-> FALSE, messages |-> <<>>, length |-> 0]

\* Conversation.__init__: the default of its max_history parameter
default_max_history == 5
Record(title) == [present |-> TRUE, title |-> title]

\* Database.get_conversation_title: None when there is no record.
get_conversation_title(rec) == IF rec.present THEN rec.title ELSE NoneTitle

(* ----------------------------- session --------------------------------- *)
\* Conversation.get_history: a failed read is logged and gives [].
get_history(rows, readOK) ==
    IF readOK
    THEN LET r == get_conversation_messages(rows)
         IN [i \in 1..Len(r) |-> [text |-> r[i].content,
                                  isUser |-> (r[i].role = "user"),
                                  timestamp |-> r[i].timestamp,
                                  req |-> r[i].req]]
    ELSE <<>>

\* the rows whose timestamp text has a fractional part
RECURSIVE WithFraction(_)
WithFraction(rows) ==
    IF rows = <<>> THEN <<>>
    ELSE (IF Len(Head(rows).timestamp) = 2 THEN <<Head(rows)>> ELSE <<>>)
         \o WithFraction(Tail(rows))

\* A loader parsing with a fixed format "%Y-%m-%dT%H:%M:%S.%f": a timestamp
\* written without fractional part fails to parse and its row is skipped.
load_messages_strict(rows, readOK) ==
    IF readOK
    THEN LET r == WithFraction(get_conversation_messages(rows))
         IN [i \in 1..Len(r) |-> Message(r[i].role, r[i].content,
                                         FromIsoFormat(r[i].timestamp), r[i].req)]
    ELSE <<>>

\* Conversation._load_messages: a failed read is logged and gives [].
load_messages(rows, readOK) ==
    IF readOK
    THEN LET r == get_conversation_messages(rows)
         IN [i \in 1..Len(r) |-> Message(r[i].role, r[i].content,
                                         FromIsoFormat(r[i].timestamp), r[i].req)]
    ELSE <<>>

\* Python's seq[-n:] : the last n elements, but the whole sequence when
\* n = 0 (because -0 = 0).
SliceLast(seq, n) ==
    IF n = 0 THEN seq
    ELSE IF n >= Len(seq) THEN seq
    ELSE SubSeq(seq, Len(seq) - n + 1, Len(seq))

HumanMessage(content) == [type |-> "human", content |-> content]
AIMessage(content) == [type |-> "ai", content |-> content]

\* Conversation._prepare_messages_for_model
prepare_messages_for_model(msgs, maxh, sysp) ==
    LET window == SliceLast(msgs, maxh * 2)
        body == [i \in 1..Len(window) |->
                    IF window[i].role = "user"
                    THEN HumanMessage(window[i].content)
                    ELSE AIMessage(window[i].content)]
    IN (IF sysp # <<>> THEN <<HumanMessage(<<"System: ">> \o sysp)>> ELSE <<>>) \o body

\* Conversation._trim_history
trim_history(msgs, maxh) ==
    IF Len(msgs) > maxh * 2 THEN SliceLast(msgs, maxh * 2) ELSE msgs

\* CustomHuggingFaceChatModel._astream, lines 75-79: only HumanMessage
\* instances reach the chat history handed to the tokenizer.
RECURSIVE chat_history_of(_)
chat_history_of(prompt) ==
    IF prompt = <<>> THEN <<>>
    ELSE (IF Head(prompt).type = "human"
          THEN <<[role |-> "user", content |-> Head(prompt).content]>>
          ELSE <<>>) \o chat_history_of(Tail(prompt))

\* Routes.chat, lines 146-148: the retrieved context is spliced into the
\* message that is passed on.
augment(m, ctx) ==
    IF ctx # <<>> THEN <<"Context: ">> \o ctx \o <<"\n\nUser: ">> \o m ELSE m

\* a session that passes every fragment on, whitespace included
send_message_yields_any(chunk) == TRUE
\* Conversation.send_message line 77 and ChatAPI.stream_response line 185
send_message_yields(chunk) == chunk # <<>> /\ Strip(chunk) # <<>>
stream_response_emits(chunk) == Strip(chunk) # <<>>

(* ------------------------------ state ---------------------------------- *)
VARIABLES
    \* the store (Database.py)
    db_conversation,    \* row of user_conversations for the conversation id
    db_messages,        \* rows of conversation_messages, in rowid order
    \* the process (ChatApi.py, Conversation.py)
    registered,         \* conversation_id in chat_api.user_conversations[user_id]
    messages,           \* Conversation.messages of the registered session
    clock,              \* datetime.now()
    \* the request in flight (Routes.chat / sync_stream / stream_response)
    reqNo,              \* number of chat requests passed on to sync_stream so far
    sync_pc,            \* position of the sync_stream generator
    ctl_pc,             \* position of the stream_response async generator
    message,            \* argument message of stream_response
    client_message,     \* the message text the client sent
    is_first_message,   \* local of stream_response
    user_ts,            \* user_msg.timestamp of stream_response
    current_response,   \* accumulator of stream_response
    sm_response,        \* accumulator current_response of send_message
    prompt,             \* result of _prepare_messages_for_model for this request
    frames,             \* frames sent to the client for this request
    \* the relay (ChatModel._astream)
    engine,             \* state of the thread running pipeline.model.generate
    produced,           \* fragments the streamer has handed over, in order
    fwd_pc,             \* position of the thread running streamer_to_queue
    fwd_token,          \* loop variable token of streamer_to_queue
    loop_state,         \* the event loop of sync_stream
    ready,              \* handles scheduled on the event loop, FIFO
    todo,               \* handles of the current pass of the loop still to run
    queue,              \* the asyncio.Queue
    getter,             \* the consumer is suspended in queue.get()
    consumed,           \* items the consumer loop has dequeued, in order
    thread_joined,      \* thread.join() at the end of _astream has returned
    \* history of the run
    faults,             \* store operations that have failed so far
    pre_len,            \* rows in the store when stream_response was entered
    title_log,          \* title generations of stream_response: <<request, pre_len>>
    cancelled_early,    \* requests closed before the terminal event was consumed
    completed,          \* requests whose assistant turn was committed in memory
    enq_stopped,        \* a token was scheduled while the loop was stopped
    yielded,            \* fragments handed over so far in the run
    \* inputs and outputs of the pure functions of Conversation
    fn_in, fn_max, fn_sys, fn_out, fn_pc,
    \* the session registry under concurrent request threads (ChatApi.py)
    user_conversations, \* chat_api.user_conversations[user_id]: id -> object, 0 if absent
    conversations,      \* the Conversation objects constructed so far
    conv_records,       \* rows of user_conversations in the store, by conversation id
    threads,            \* the request threads: position and locals
    returned,           \* the get_conversation calls that have returned, in order
    calls,              \* calls started so far
    history_files,      \* the files of save_history, by conversation id
    user_keys,          \* the keys of chat_api.user_conversations[user_id], as inserted
    \* two requests streaming at once: the locals of each call, by request
    streamers,          \* fragments the request's streamer has handed over
    forwarders,         \* the thread running streamer_to_queue: position, token
    loops,              \* the event loop of sync_stream: state, ready handles, pass
    queues,             \* the asyncio.Queue of _astream
    consumers,          \* stream_response and sync_stream: positions, getter, frames, text
    \* several users on the same store, their requests interleaved
    uc_table,           \* table user_conversations: id -> present, user_id, title
    cm_table,           \* table conversation_messages: id -> rows in rowid order
    sessions,           \* chat_api.user_conversations: <<user, id>> -> registered, object
    own_objects,        \* the Conversation objects constructed so far: id, messages
    own_threads,        \* the request threads of the users: position, id, object in hand
    responses,          \* what the routes have answered, in order
    own_calls,          \* requests served so far
    own_clock,          \* datetime.now() of these requests
    \* the in-memory app (src/backend/app.py), one conversation id
    legacy_conversations, \* conversations[conversation_id]: a list, 0 without the key
    legacy_lists,       \* the list objects made so far
    legacy_threads,     \* the request threads: position and locals of run_generation
    legacy_requests,    \* requests started so far in this run
    legacy_log          \* the entries of the requests that stored, in that order

storeVars == <<db_conversation, db_messages>>
sessionVars == <<registered, messages, clock>>
requestVars == <<reqNo, sync_pc, ctl_pc, message, client_message, is_first_message,
                 user_ts, current_response, sm_response, prompt, frames>>
relayVars == <<engine, produced, fwd_pc, fwd_token, loop_state, ready, todo,
               queue, getter, consumed, thread_joined>>
historyVars == <<faults, pre_len, title_log, cancelled_early, completed, enq_stopped,
                 yielded>>
fnVars == <<fn_in, fn_max, fn_sys, fn_out, fn_pc>>
regVars == <<user_conversations, conversations, conv_records, threads, returned, calls,
             history_files, user_keys>>
pairVars == <<streamers, forwarders, loops, queues, consumers>>
ownVars == <<uc_table, cm_table, sessions, own_objects, own_threads, responses, own_calls,
             own_clock>>
legacyVars == <<legacy_conversations, legacy_lists, legacy_threads, legacy_requests,
                legacy_log>>
sideVars == <<regVars, pairVars, ownVars, legacyVars>>
chatVars == <<storeVars, sessionVars, requestVars, relayVars, historyVars>>
vars == <<storeVars, sessionVars, requestVars, relayVars, historyVars, fnVars, sideVars>>

\* a request thread that is not inside a call; object is the Conversation
\* the call has in hand, pos and size the place in the iteration of
\* save_user_conversations, dump the messages save_history is writing,
\* files the file names load_user_conversations has still to load
IdleThread == [pc |-> "idle", op |-> "none", conversation_id |-> "c1",
               existing_title |-> NoneTitle, fresh |-> FALSE, since |-> 0,
               had_record |-> FALSE, status |-> "none",
               object |-> 0, pos |-> 0, size |-> 0, dump |-> <<>>, files |-> <<>>]

\* no request thread has touched the registry: the state of a new ChatAPI
RegIdle ==
    /\ user_conversations = [k \in ConversationIds |-> 0]
    /\ conversations = <<>>
    /\ conv_records = [k \in ConversationIds |-> NoRecord]
    /\ threads = [t \in Threads |-> IdleThread]
    /\ returned = <<>>
    /\ calls = 0
    /\ history_files = [k \in ConversationIds |-> NoFile]
    /\ user_keys = <<>>

\* no pair of concurrent requests is in flight
PairIdle ==
    /\ streamers = [r \in Requests |-> <<>>]
    /\ forwarders = [r \in Requests |-> [pc |-> "idle", token |-> NoneItem]]
    /\ loops = [r \in Requests |-> [state |-> "none", ready |-> <<>>, todo |-> 0]]
    /\ queues = [r \in Requests |-> <<>>]
    /\ consumers = [r \in Requests |-> [pc |-> "none", sync |-> "none",
                                         getter |-> FALSE, frames |-> <<>>,
                                         response |-> <<>>]]

\* a new store and a new ChatAPI, no request served
\* a user's request to the chat route, the history route, the title route
\* and the route that creates a conversation
OwnSlots == Users \X {"chat", "history", "title", "create"}

\* a request thread of a user that is not inside a request; status and rows
\* are what a route has decided to answer
OwnIdleThread == [pc |-> "idle", id |-> "c1", is_first |-> FALSE, object |-> 0,
                  user_ts |-> 0, status |-> "", rows |-> <<>>]

OwnIdle ==
    /\ uc_table = [c \in ConversationIds |->
                      [present |-> FALSE, user_id |-> "u1", title |-> NoneTitle]]
    /\ cm_table = [c \in ConversationIds |-> <<>>]
    /\ sessions = [key \in Users \X ConversationIds |->
                      [registered |-> FALSE, object |-> 0]]
    /\ own_objects = <<>>
    /\ own_threads = [s \in OwnSlots |-> OwnIdleThread]
    /\ responses = <<>>
    /\ own_calls = 0
    /\ own_clock = 1

\* a thread of the in-memory app that serves no request: message,
\* current_response and history are locals of run_generation, tokens counts
\* the fragments received, req is the number of the request
LegacyIdleThread == [pc |-> "idle", message |-> <<>>, response |-> <<>>,
                     frames |-> <<>>, history |-> 0, tokens |-> 0, req |-> 0]

\* the in-memory app after start: conversations = {} (app.py line 31)
LegacyIdle ==
    /\ legacy_conversations = 0
    /\ legacy_lists = <<>>
    /\ legacy_threads = [t \in Threads |-> LegacyIdleThread]
    /\ legacy_requests = 0
    /\ legacy_log = <<>>

SideIdle == RegIdle /\ PairIdle /\ OwnIdle /\ LegacyIdle

Init ==
    /\ db_conversation = NoRecord
    /\ db_messages = <<>>
    /\ registered = FALSE
    /\ messages = <<>>
    /\ clock = 1
    /\ reqNo = 0
    /\ sync_pc = "none"
    /\ ctl_pc = "none"
    /\ message = <<>>
    /\ client_message = <<>>
    /\ is_first_message = FALSE
    /\ user_ts = 0
    /\ current_response = <<>>
    /\ sm_response = <<>>
    /\ prompt = <<>>
    /\ frames = <<>>
    /\ engine = "idle"
    /\ produced = <<>>
    /\ fwd_pc = "idle"
    /\ fwd_token = NoneItem
    /\ loop_state = "none"
    /\ ready = <<>>
    /\ todo = 0
    /\ queue = <<>>
    /\ getter = FALSE
    /\ consumed = <<>>
    /\ thread_joined = FALSE
    /\ faults = 0
    /\ pre_len = 0
    /\ title_log = <<>>
    /\ cancelled_early = {}
    /\ completed = {}
    /\ enq_stopped = FALSE
    /\ yielded = 0
    /\ fn_in = <<>>
    /\ fn_max = 0
    /\ fn_sys = <<>>
    /\ fn_out = <<>>
    /\ fn_pc = "off"
    /\ SideIdle

(* ------------------------- the chat route ------------------------------ *)
\* The consumer waits in queue.get() for an event that can no longer come.
RequestStuck ==
    /\ sync_pc = "running"
    /\ getter
    /\ ready = <<>>
    /\ engine = "failed"
    /\ fwd_pc \in {"next", "exited"}

NoRequestInFlight ==
    sync_pc \in {"none", "ended", "cancelled", "rejected", "raised"} \/ RequestStuck

\* Routes.chat: rejects an empty message, else splices the retrieved context
\* into the message and starts sync_stream: a new event loop, the async
\* generator stream_response, and the first run_until_complete, which
\* schedules the first step of the task.  When query_rag raises (line 146)
\* the except clause of the route answers with one error frame (172-177)
\* and stream_response is never called.  The threads of an earlier request
\* only reach that request's own loop, queue and streamer, which are dropped
\* here.
Chat(m, ctx) ==
    /\ NoRequestInFlight
    /\ reqNo < MaxRequests
    /\ reqNo' = IF m = <<>> \/ ctx.raises THEN reqNo ELSE reqNo + 1
    /\ client_message' = m
    /\ IF m = <<>>
       THEN /\ frames' = <<ErrorFrame(<<"Message is required">>)>>
            /\ sync_pc' = "rejected"
            /\ ctl_pc' = "none"
            /\ message' = <<>>
            /\ loop_state' = "none"
            /\ ready' = <<>>
       ELSE IF ctx.raises
       THEN /\ frames' = <<ErrorFrame(ctx.text)>>
            /\ sync_pc' = "raised"
            /\ ctl_pc' = "none"
            /\ message' = <<>>
            /\ loop_state' = "none"
            /\ ready' = <<>>
       ELSE /\ frames' = <<>>
            /\ sync_pc' = "running"
            /\ ctl_pc' = "start"
            /\ message' = augment(m, ctx.text)
            /\ loop_state' = "running"
            /\ ready' = <<WakeHandle>>
    /\ todo' = 0
    /\ engine' = "idle"
    /\ produced' = <<>>
    /\ fwd_pc' = "idle"
    /\ fwd_token' = NoneItem
    /\ queue' = <<>>
    /\ getter' = FALSE
    /\ consumed' = <<>>
    /\ thread_joined' = FALSE
    /\ current_response' = <<>>
    /\ sm_response' = <<>>
    /\ prompt' = <<>>
    /\ enq_stopped' = FALSE
    /\ is_first_message' = FALSE
    /\ user_ts' = 0
    /\ pre_len' = 0
    /\ UNCHANGED <<storeVars, sessionVars, faults, title_log, cancelled_early,
                   completed, yielded, fnVars, sideVars>>

(* ---------------------------- the event loop ---------------------------- *)
\* BaseEventLoop.run_forever calls _run_once until the loop is stopping.  A
\* pass of _run_once runs the handles that are ready when the pass begins
\* (ntodo = len(self._ready)); handles scheduled during the pass wait for
\* the next one.  The loop with nothing ready waits in its selector.
LoopRunOnce ==
    /\ loop_state = "running"
    /\ todo = 0
    /\ ready # <<>>
    /\ todo' = Len(ready)
    /\ UNCHANGED <<storeVars, sessionVars, requestVars, engine, produced, fwd_pc,
                   fwd_token, loop_state, ready, queue, getter, consumed,
                   thread_joined, historyVars, fnVars, sideVars>>

\* the loop is inside a pass and its next handle is of kind k
LoopRuns(k) ==
    /\ loop_state \in {"running", "stopping"}
    /\ todo > 0
    /\ ready # <<>>
    /\ Head(ready).h = k

\* A handle has run, leaving rdy ready and the loop in state st.  After the
\* last handle of a pass a stopping loop leaves run_forever:
\* run_until_complete (Routes.py line 160) returns the frame, which
\* sync_stream yields (161), or raises StopAsyncIteration, which ends
\* sync_stream through loop.close() (162-165).
HandleDone(rdy, st) ==
    IF todo = 1 /\ st = "stopping"
    THEN /\ todo' = 0
         /\ IF ctl_pc = "finished"
            THEN /\ loop_state' = "closed"
                 /\ ready' = <<>>
                 /\ sync_pc' = "ended"
            ELSE /\ loop_state' = "stopped"
                 /\ ready' = rdy
                 /\ sync_pc' = "yielded"
    ELSE /\ todo' = todo - 1
         /\ loop_state' = st
         /\ ready' = rdy
         /\ sync_pc' = sync_pc

\* the task driving stream_response is the handle the loop runs next
ConsumerRuns ==
    /\ sync_pc = "running"
    /\ LoopRuns("wake")

\* the task of __anext__ ends, with a frame or with StopAsyncIteration: its
\* done-callback _run_until_complete_cb is scheduled behind the handles that
\* are ready
TaskDone == HandleDone(Append(Tail(ready), StopHandle), loop_state)

\* the task suspends in queue.get()
TaskSuspends == HandleDone(Tail(ready), loop_state)

\* stream_response yields frame f, which ends the task of __anext__
YieldFrame(f, pc) ==
    /\ frames' = Append(frames, f)
    /\ ctl_pc' = pc
    /\ TaskDone

\* ChatAPI.stream_response lines 198-200: any exception becomes an error frame
RaiseToHandler(e) == YieldFrame(ErrorFrame(e), "error_yielded")

\* the loop runs _run_until_complete_cb: loop.stop() sets the stopping flag,
\* the rest of the pass still runs
LoopRunStop ==
    /\ LoopRuns("stop")
    /\ HandleDone(Tail(ready), "stopping")
    /\ UNCHANGED <<storeVars, sessionVars, reqNo, ctl_pc, message, client_message,
                   is_first_message, user_ts, current_response, sm_response, prompt,
                   frames, engine, produced, fwd_pc, fwd_token, queue, getter,
                   consumed, thread_joined, historyVars, fnVars, sideVars>>

\* sync_stream line 160: ask for the next frame; run_until_complete makes a
\* task of async_gen.__anext__() and schedules its first step
SyncNext ==
    /\ sync_pc = "yielded"
    /\ sync_pc' = "running"
    /\ loop_state' = "running"
    /\ ready' = Append(ready, WakeHandle)
    /\ todo' = 0
    /\ UNCHANGED <<storeVars, sessionVars, reqNo, ctl_pc, message, client_message,
                   is_first_message, user_ts, current_response, sm_response, prompt,
                   frames, engine, produced, fwd_pc, fwd_token, queue,
                   getter, consumed, thread_joined, historyVars, fnVars, sideVars>>

\* A disconnect that also commits the partial accumulator, as a cleanup
\* handler that saved on close would.
ClientDisconnectCommitting ==
    /\ sync_pc = "yielded"
    /\ sync_pc' = "cancelled"
    /\ loop_state' = "closed"
    /\ ready' = <<>>
    /\ todo' = 0
    /\ cancelled_early' = IF ctl_pc = "tokens" THEN cancelled_early \cup {reqNo}
                          ELSE cancelled_early
    /\ db_messages' = IF ctl_pc = "tokens"
                      THEN Append(db_messages,
                                  Row("assistant", current_response, IsoFormat(user_ts), reqNo))
                      ELSE db_messages
    /\ UNCHANGED <<db_conversation, sessionVars, reqNo, ctl_pc, message, client_message,
                   is_first_message, user_ts, current_response, sm_response, prompt,
                   frames, engine, produced, fwd_pc, fwd_token, queue,
                   getter, consumed, thread_joined, faults, pre_len, title_log,
                   completed, enq_stopped, yielded, fnVars, sideVars>>

\* The client goes away: the WSGI server closes sync_stream at its yield
\* (line 161), GeneratorExit runs the finally clause, loop.close() (line 165).
\* The async generator is never resumed.
ClientDisconnect ==
    /\ sync_pc = "yielded"
    /\ sync_pc' = "cancelled"
    /\ loop_state' = "closed"
    /\ ready' = <<>>
    /\ todo' = 0
    /\ cancelled_early' = IF ctl_pc = "tokens" THEN cancelled_early \cup {reqNo}
                          ELSE cancelled_early
    /\ UNCHANGED <<storeVars, sessionVars, reqNo, ctl_pc, message, client_message,
                   is_first_message, user_ts, current_response, sm_response, prompt,
                   frames, engine, produced, fwd_pc, fwd_token, queue,
                   getter, consumed, thread_joined, faults, pre_len, title_log,
                   completed, enq_stopped, yielded, fnVars, sideVars>>

(* ----------------------- the stream controller -------------------------- *)
Cost(failed) == IF failed THEN 1 ELSE 0

\* ChatAPI.get_conversation (stream_response line 176).  A store failure in
\* get_conversation_title or add_conversation is re-raised; a failure in
\* _load_messages leaves an empty history.
GetConversation ==
    /\ ConsumerRuns
    /\ ctl_pc = "start"
    /\ \E titleOK, addOK, loadOK \in BOOLEAN :
         LET create == ~registered
             existing_title == get_conversation_title(db_conversation)
             needAdd == create /\ titleOK /\ existing_title.none
             needLoad == create /\ titleOK /\ (needAdd => addOK)
             nf == Cost(create /\ ~titleOK) + Cost(needAdd /\ ~addOK)
                   + Cost(needLoad /\ ~loadOK)
         IN /\ ~create => titleOK
            /\ ~needAdd => addOK
            /\ ~needLoad => loadOK
            /\ faults + nf <= MaxFaults
            /\ faults' = faults + nf
            /\ IF create /\ ~needLoad
               THEN /\ RaiseToHandler(IF ~titleOK
                                       THEN <<"get_conversation_title failed">>
                                       ELSE <<"add_conversation failed">>)
                    /\ UNCHANGED <<db_conversation, registered, messages>>
               ELSE /\ db_conversation' =
                          IF needAdd THEN Record(TextTitle(<<"New Conversation">>))
                          ELSE db_conversation
                    /\ registered' = TRUE
                    /\ messages' = IF create THEN load_messages(db_messages, loadOK)
                                   ELSE messages
                    /\ ctl_pc' = "got_conversation"
                    /\ UNCHANGED <<frames, sync_pc, loop_state, ready, todo>>
    /\ UNCHANGED <<db_messages, clock, reqNo, message, client_message, is_first_message,
                   user_ts, current_response, sm_response, prompt, engine, produced,
                   fwd_pc, fwd_token, queue, getter, consumed, thread_joined,
                   pre_len, title_log, cancelled_early, completed, enq_stopped,
                   yielded, fnVars, sideVars>>

\* stream_response lines 177-184 up to the first await: the first-message
\* test, the user turn appended and saved, then send_message lines 61-75
\* (the user turn appended again, retrieval, the prompt) and _astream lines
\* 75-138 (both threads started, the consumer suspends in queue.get()).
\* When query_rag raises in send_message (line 66), after the user turn was
\* saved and appended twice, send_message re-raises (86-88) and the except
\* clause of stream_response yields the error frame; no thread is started.
StreamResponseBegin ==
    /\ ConsumerRuns
    /\ ctl_pc = "got_conversation"
    /\ \E histOK, saveOK \in BOOLEAN, rag \in Contexts :
         LET nf == Cost(~histOK) + Cost(~saveOK)
             user_msg == Message("user", message, clock, reqNo)
             m1 == Append(messages, user_msg)
             m2 == Append(m1, Message("user", message, clock + 1, reqNo))
         IN /\ faults + nf <= MaxFaults
            /\ faults' = faults + nf
            /\ is_first_message' = (Len(get_history(db_messages, histOK)) = 0)
            /\ pre_len' = Len(db_messages)
            /\ user_ts' = user_msg.timestamp
            /\ IF ~saveOK
               THEN /\ ~rag.raises
                    /\ messages' = m1
                    /\ clock' = clock + 1
                    /\ RaiseToHandler(<<"save_message failed">>)
                    /\ UNCHANGED <<db_messages, prompt, engine, fwd_pc, getter>>
               ELSE IF rag.raises
               THEN /\ db_messages' = save_message(db_messages,
                          Row("user", message, IsoFormat(user_msg.timestamp), reqNo))
                    /\ messages' = m2
                    /\ clock' = clock + 2
                    /\ RaiseToHandler(rag.text)
                    /\ UNCHANGED <<prompt, engine, fwd_pc, getter>>
               ELSE /\ db_messages' = save_message(db_messages,
                          Row("user", message, IsoFormat(user_msg.timestamp), reqNo))
                    /\ messages' = m2
                    /\ clock' = clock + 2
                    /\ prompt' = prepare_messages_for_model(m2, max_history, system_prompt)
                    /\ engine' = "running"
                    /\ fwd_pc' = "next"
                    /\ getter' = TRUE
                    /\ TaskSuspends
                    /\ ctl_pc' = "tokens"
                    /\ UNCHANGED frames
    /\ UNCHANGED <<db_conversation, registered, reqNo, message, client_message,
                   current_response, sm_response, produced, fwd_token,
                   queue, consumed, thread_joined, title_log, cancelled_early,
                   completed, enq_stopped, yielded, fnVars, sideVars>>

\* The consumer loops of _astream (lines 137-143), send_message (75-79) and
\* stream_response (184-187), run from the head of the queue until the next
\* frame, the sentinel, or an empty queue.
RECURSIVE Drain(_, _, _, _)
Drain(q, sm, cur, cons) ==
    IF q = <<>>
    THEN [queue |-> q, sm |-> sm, cur |-> cur, cons |-> cons, at |-> "empty",
          text |-> <<>>]
    ELSE LET x == Head(q)
         IN IF x.kind = "none"
            THEN [queue |-> Tail(q), sm |-> sm, cur |-> cur, cons |-> Append(cons, x),
                  at |-> "none", text |-> <<>>]
            ELSE IF ~send_message_yields(x.text)
            THEN Drain(Tail(q), sm, cur, Append(cons, x))
            ELSE IF ~stream_response_emits(x.text)
            THEN Drain(Tail(q), sm \o x.text, cur, Append(cons, x))
            ELSE [queue |-> Tail(q), sm |-> sm \o x.text, cur |-> cur \o x.text,
                  cons |-> Append(cons, x), at |-> "frame", text |-> x.text]

\* The consumer resumes inside the token loop: it emits the next token frame
\* or suspends again in queue.get().
StreamTokens ==
    /\ ConsumerRuns
    /\ ctl_pc = "tokens"
    /\ LET d == Drain(queue, sm_response, current_response, consumed)
       IN /\ d.at # "none"
          /\ queue' = d.queue
          /\ sm_response' = d.sm
          /\ current_response' = d.cur
          /\ consumed' = d.cons
          /\ IF d.at = "frame"
             THEN /\ YieldFrame(TokenFrame(d.text), "tokens")
                  /\ UNCHANGED getter
             ELSE /\ getter' = TRUE
                  /\ TaskSuspends
                  /\ UNCHANGED <<frames, ctl_pc>>
    /\ UNCHANGED <<storeVars, sessionVars, reqNo, message, client_message,
                   is_first_message, user_ts, prompt, engine, produced,
                   fwd_pc, fwd_token, thread_joined, historyVars, fnVars, sideVars>>

\* The consumer dequeues the sentinel: _astream joins the generate thread
\* (line 145), send_message appends the assistant turn in memory (82-84),
\* stream_response saves it with the user turn's timestamp (189) and, on a
\* first message, generates and records the title (191-194), then yields the
\* title frame or the final frame (196).
StreamComplete ==
    /\ ConsumerRuns
    /\ ctl_pc = "tokens"
    /\ engine = "done"
    /\ LET d == Drain(queue, sm_response, current_response, consumed)
       IN /\ d.at = "none"
          /\ queue' = d.queue
          /\ sm_response' = d.sm
          /\ current_response' = d.cur
          /\ consumed' = d.cons
          /\ thread_joined' = TRUE
          /\ messages' = Append(messages, Message("assistant", d.sm, clock, reqNo))
          /\ clock' = clock + 1
          /\ completed' = completed \cup {reqNo}
          /\ \E saveOK, updateOK \in BOOLEAN, title \in Titles :
               LET nf == Cost(~saveOK) + Cost(saveOK /\ is_first_message /\ ~updateOK)
               IN /\ ~(saveOK /\ is_first_message) => updateOK
                  /\ faults + nf <= MaxFaults
                  /\ faults' = faults + nf
                  /\ db_messages' =
                        IF saveOK
                        THEN save_message(db_messages,
                                Row("assistant", d.cur, IsoFormat(user_ts), reqNo))
                        ELSE db_messages
                  /\ title_log' = IF saveOK /\ is_first_message
                                  THEN Append(title_log, <<reqNo, pre_len>>)
                                  ELSE title_log
                  /\ db_conversation' =
                        IF saveOK /\ is_first_message /\ updateOK /\ db_conversation.present
                        THEN Record(TextTitle(title))
                        ELSE db_conversation
                  /\ IF ~saveOK
                     THEN RaiseToHandler(<<"save_message failed">>)
                     ELSE IF ~updateOK
                     THEN RaiseToHandler(<<"update_conversation_title failed">>)
                     ELSE IF is_first_message
                     THEN YieldFrame(TitleFrame(title), "title_yielded")
                     ELSE YieldFrame(FinalFrame, "final_yielded")
    /\ UNCHANGED <<registered, reqNo, message, client_message, is_first_message,
                   user_ts, prompt, engine, produced, fwd_pc, fwd_token,
                   getter, pre_len, cancelled_early, enq_stopped, yielded,
                   fnVars, sideVars>>

\* stream_response resumes after the title frame and yields the final frame
\* (line 196).
ResumeAfterTitle ==
    /\ ConsumerRuns
    /\ ctl_pc = "title_yielded"
    /\ YieldFrame(FinalFrame, "final_yielded")
    /\ UNCHANGED <<storeVars, sessionVars, reqNo, message, client_message,
                   is_first_message, user_ts, current_response, sm_response, prompt,
                   engine, produced, fwd_pc, fwd_token, queue, getter,
                   consumed, thread_joined, historyVars, fnVars, sideVars>>

\* stream_response resumes after its last frame and returns: the task of
\* __anext__ ends with StopAsyncIteration.
ResumeFinish ==
    /\ ConsumerRuns
    /\ ctl_pc \in {"final_yielded", "error_yielded"}
    /\ ctl_pc' = "finished"
    /\ TaskDone
    /\ UNCHANGED <<storeVars, sessionVars, reqNo, message, client_message,
                   is_first_message, user_ts, current_response, sm_response, prompt,
                   frames, engine, produced, fwd_pc, fwd_token, queue,
                   getter, consumed, thread_joined, historyVars, fnVars, sideVars>>

\* the engine's answers to the title prompt of the title route
RouteTitles == {<<"Topic">>}

\* Routes.generate_conversation_title (POST .../title), served by a thread of
\* its own at any time: a title is generated from the posted first_message
\* and written over the title of the conversation's record, if there is one.
GenerateConversationTitleRoute(title) ==
    /\ \E updateOK \in BOOLEAN :
         /\ faults + Cost(~updateOK) <= MaxFaults
         /\ faults' = faults + Cost(~updateOK)
         /\ db_conversation' = IF updateOK /\ db_conversation.present
                               THEN Record(TextTitle(title))
                               ELSE db_conversation
    /\ UNCHANGED <<db_messages, sessionVars, requestVars, relayVars, pre_len, title_log,
                   cancelled_early, completed, enq_stopped, yielded, fnVars, sideVars>>

(* ------------------------------ the relay ------------------------------ *)
\* The streamer between the generate thread (ChatModel.py line 113) and the
\* forwarding thread is a FIFO of its own: a fragment enters the model when
\* the iterator of streamer_to_queue hands it over (line 122), which can be
\* after the generate thread has ended.  The thread tests loop.is_closed()
\* (line 123) and on a closed loop leaves the for loop, finds the loop closed
\* again (line 129) and returns.
FwdNext(t) ==
    /\ fwd_pc = "next"
    /\ engine # "idle"
    /\ yielded < MaxTokens
    /\ yielded' = yielded + 1
    /\ produced' = Append(produced, t)
    /\ IF loop_state = "closed"
       THEN fwd_pc' = "exited" /\ UNCHANGED fwd_token
       ELSE fwd_pc' = "submit" /\ fwd_token' = TokenItem(t)
    /\ UNCHANGED <<storeVars, sessionVars, requestVars, engine, loop_state, ready, todo,
                   queue, getter, consumed, thread_joined, faults, pre_len, title_log,
                   cancelled_early, completed, enq_stopped, fnVars, sideVars>>

\* generate returns: the streamer is ended and the generate thread finishes,
\* wherever the forwarding thread is
EngineDone ==
    /\ engine = "running"
    /\ engine' = "done"
    /\ UNCHANGED <<storeVars, sessionVars, requestVars, produced, fwd_pc,
                   fwd_token, loop_state, ready, todo, queue, getter, consumed,
                   thread_joined, historyVars, fnVars, sideVars>>

\* the iteration of streamer_to_queue reaches the end of the streamer; line
\* 129 tests loop.is_closed()
FwdStop ==
    /\ fwd_pc = "next"
    /\ engine = "done"
    /\ fwd_pc' = IF loop_state = "closed" THEN "exited" ELSE "final_submit"
    /\ UNCHANGED <<storeVars, sessionVars, requestVars, engine, produced, fwd_token,
                   loop_state, ready, todo, queue, getter, consumed, thread_joined,
                   historyVars, fnVars, sideVars>>

\* generate raises inside its thread: nothing more reaches the streamer
EngineFail ==
    /\ engine = "running"
    /\ engine' = "failed"
    /\ UNCHANGED <<storeVars, sessionVars, requestVars, produced, fwd_pc,
                   fwd_token, loop_state, ready, todo, queue, getter, consumed,
                   thread_joined, historyVars, fnVars, sideVars>>

\* streamer_to_queue: the iterator raises after the engine failed.  A
\* RuntimeError is swallowed (lines 131-132), any other exception ends the
\* thread; either way the thread is gone and nothing was scheduled.
FwdIteratorRaises ==
    /\ fwd_pc = "next"
    /\ engine = "failed"
    /\ fwd_pc' = "exited"
    /\ UNCHANGED <<storeVars, sessionVars, requestVars, engine, produced,
                   fwd_token, loop_state, ready, todo, queue, getter, consumed,
                   thread_joined, historyVars, fnVars, sideVars>>

\* A forwarder that waits for the result of run_coroutine_threadsafe: on a
\* closed loop the put never runs and the thread waits forever.
FwdSubmitBlocking ==
    /\ fwd_pc = "submit"
    /\ loop_state # "closed"
    /\ fwd_pc' = "next"
    /\ ready' = Append(ready, CbHandle(fwd_token))
    /\ enq_stopped' = (enq_stopped \/ loop_state = "stopped")
    /\ UNCHANGED <<storeVars, sessionVars, requestVars, engine, produced,
                   fwd_token, loop_state, todo, queue, getter, consumed, thread_joined,
                   faults, pre_len, title_log, cancelled_early, completed, yielded, fnVars, sideVars>>

\* A forwarder that appends to the loop's ready queue without the closed
\* test of call_soon_threadsafe.
FwdSubmitUnchecked ==
    /\ fwd_pc = "submit"
    /\ fwd_pc' = "next"
    /\ ready' = Append(ready, CbHandle(fwd_token))
    /\ enq_stopped' = (enq_stopped \/ loop_state = "stopped")
    /\ UNCHANGED <<storeVars, sessionVars, requestVars, engine, produced,
                   fwd_token, loop_state, todo, queue, getter, consumed, thread_joined,
                   faults, pre_len, title_log, cancelled_early, completed, yielded, fnVars, sideVars>>

\* streamer_to_queue lines 125-128: run_coroutine_threadsafe schedules a
\* callback on the loop, or raises RuntimeError when the loop is closed
FwdSubmit ==
    /\ fwd_pc = "submit"
    /\ IF loop_state = "closed"
       THEN fwd_pc' = "exited" /\ UNCHANGED <<ready, enq_stopped>>
       ELSE /\ fwd_pc' = "next"
            /\ ready' = Append(ready, CbHandle(fwd_token))
            /\ enq_stopped' = (enq_stopped \/ loop_state = "stopped")
    /\ UNCHANGED <<storeVars, sessionVars, requestVars, engine, produced,
                   fwd_token, loop_state, todo, queue, getter, consumed, thread_joined,
                   faults, pre_len, title_log, cancelled_early, completed, yielded, fnVars, sideVars>>

\* The sentinel put on the queue directly from the forwarding thread instead
\* of through the loop.
FwdFinalSubmitDirect ==
    /\ fwd_pc = "final_submit"
    /\ fwd_pc' = "exited"
    /\ IF loop_state = "closed"
       THEN UNCHANGED <<queue, ready, getter>>
       ELSE /\ queue' = Append(queue, NoneItem)
            /\ getter' = FALSE
            /\ ready' = IF getter THEN Append(ready, WakeHandle) ELSE ready
    /\ UNCHANGED <<storeVars, sessionVars, requestVars, engine, produced,
                   fwd_token, loop_state, todo, consumed, thread_joined, historyVars,
                   fnVars, sideVars>>

\* streamer_to_queue line 130: the sentinel is scheduled like a token
FwdFinalSubmit ==
    /\ fwd_pc = "final_submit"
    /\ fwd_pc' = "exited"
    /\ IF loop_state = "closed"
       THEN UNCHANGED ready
       ELSE ready' = Append(ready, CbHandle(NoneItem))
    /\ UNCHANGED <<storeVars, sessionVars, requestVars, engine, produced,
                   fwd_token, loop_state, todo, queue, getter, consumed, thread_joined,
                   historyVars, fnVars, sideVars>>

\* the loop runs the callback of run_coroutine_threadsafe: a task is created
\* for queue.put(item) and its first step is scheduled
LoopRunCallback ==
    /\ LoopRuns("cb")
    /\ HandleDone(Append(Tail(ready), PutHandle(Head(ready).item)), loop_state)
    /\ UNCHANGED <<storeVars, sessionVars, reqNo, ctl_pc, message, client_message,
                   is_first_message, user_ts, current_response, sm_response, prompt,
                   frames, engine, produced, fwd_pc, fwd_token, queue, getter,
                   consumed, thread_joined, historyVars, fnVars, sideVars>>

\* A put that enqueues the item without waking the suspended getter.
LoopRunPutNoWake ==
    /\ LoopRuns("put")
    /\ queue' = Append(queue, Head(ready).item)
    /\ HandleDone(Tail(ready), loop_state)
    /\ UNCHANGED <<storeVars, sessionVars, reqNo, ctl_pc, message, client_message,
                   is_first_message, user_ts, current_response, sm_response, prompt,
                   frames, engine, produced, fwd_pc, fwd_token, getter,
                   consumed, thread_joined, historyVars, fnVars, sideVars>>

\* the loop runs the task of queue.put(item): the queue is unbounded, so the
\* item is enqueued at once, and a suspended consumer is scheduled
LoopRunPut ==
    /\ LoopRuns("put")
    /\ queue' = Append(queue, Head(ready).item)
    /\ getter' = FALSE
    /\ HandleDone(IF getter THEN Append(Tail(ready), WakeHandle) ELSE Tail(ready),
                  loop_state)
    /\ UNCHANGED <<storeVars, sessionVars, reqNo, ctl_pc, message, client_message,
                   is_first_message, user_ts, current_response, sm_response, prompt,
                   frames, engine, produced, fwd_pc, fwd_token,
                   consumed, thread_joined, historyVars, fnVars, sideVars>>

(* ------------------------------ restart -------------------------------- *)
\* The process is restarted: the registry of ChatAPI (line 30) starts empty,
\* the store is kept.
Restart ==
    /\ NoRequestInFlight
    /\ sync_pc # "none"
    /\ registered
    /\ registered' = FALSE
    /\ messages' = <<>>
    /\ sync_pc' = "none"
    /\ UNCHANGED <<storeVars, clock, reqNo, ctl_pc, message, client_message,
                   is_first_message, user_ts, current_response, sm_response, prompt,
                   frames, relayVars, historyVars, fnVars, sideVars>>

Next ==
    \/ \E m \in ClientMessages, ctx \in Contexts : Chat(m, ctx)
    \/ SyncNext
    \/ ClientDisconnect
    \/ GetConversation
    \/ StreamResponseBegin
    \/ StreamTokens
    \/ StreamComplete
    \/ ResumeAfterTitle
    \/ ResumeFinish
    \/ \E title \in RouteTitles : GenerateConversationTitleRoute(title)
    \/ \E t \in TokensAt(Len(produced) + 1) : FwdNext(t)
    \/ EngineDone
    \/ FwdStop
    \/ EngineFail
    \/ FwdIteratorRaises
    \/ FwdSubmit
    \/ FwdFinalSubmit
    \/ LoopRunOnce
    \/ LoopRunCallback
    \/ LoopRunPut
    \/ LoopRunStop
    \/ Restart

Spec == Init /\ [][Next]_vars

(* ------------------- the last two requests of a run --------------------- *)
\* Requests of a run before its last two: each was refused because the title
\* lookup of get_conversation failed.
RefusedRequests == MaxRequests - 2

\* The request and relay variables after n requests that were refused that
\* way: nothing was stored or registered by them, the last of them has ended
\* with its error frame and its loop is closed; with n = 0 no request was
\* made.
AfterRefused(n) ==
    /\ registered = FALSE
    /\ messages = <<>>
    /\ reqNo = n
    /\ sync_pc = IF n = 0 THEN "none" ELSE "ended"
    /\ ctl_pc = IF n = 0 THEN "none" ELSE "finished"
    /\ message = IF n = 0 THEN <<>> ELSE augment(<<"hi">>, <<"ctx">>)
    /\ client_message = IF n = 0 THEN <<>> ELSE <<"hi">>
    /\ is_first_message = FALSE
    /\ user_ts = 0
    /\ current_response = <<>>
    /\ sm_response = <<>>
    /\ prompt = <<>>
    /\ frames = IF n = 0 THEN <<>>
                ELSE <<ErrorFrame(<<"get_conversation_title failed">>)>>
    /\ engine = "idle"
    /\ produced = <<>>
    /\ fwd_pc = "idle"
    /\ fwd_token = NoneItem
    /\ loop_state = IF n = 0 THEN "none" ELSE "closed"
    /\ ready = <<>>
    /\ todo = 0
    /\ queue = <<>>
    /\ getter = FALSE
    /\ consumed = <<>>
    /\ thread_joined = FALSE
    /\ faults = n
    /\ pre_len = 0
    /\ cancelled_early = {}
    /\ enq_stopped = FALSE
    /\ yielded = 0
    /\ fn_in = <<>>
    /\ fn_max = 0
    /\ fn_sys = <<>>
    /\ fn_out = <<>>
    /\ fn_pc = "off"
    /\ SideIdle

\* a new process with an empty store
InitRun ==
    /\ db_conversation = NoRecord
    /\ db_messages = <<>>
    /\ clock = 1
    /\ title_log = <<>>
    /\ completed = {}
    /\ AfterRefused(RefusedRequests)

SpecRun == InitRun /\ [][Next]_vars

(* ----------------- the last request of a run, fairly -------------------- *)
\* The state before the last request of a run whose earlier requests were
\* all refused because the title lookup of get_conversation failed: nothing
\* is stored or registered, the last of them has ended with its error frame.
InitLast ==
    /\ db_conversation = NoRecord
    /\ db_messages = <<>>
    /\ registered = FALSE
    /\ messages = <<>>
    /\ clock = 1
    /\ reqNo = MaxRequests - 1
    /\ sync_pc = "ended"
    /\ ctl_pc = "finished"
    /\ message = augment(<<"hi">>, <<"ctx">>)
    /\ client_message = <<"hi">>
    /\ is_first_message = FALSE
    /\ user_ts = 0
    /\ current_response = <<>>
    /\ sm_response = <<>>
    /\ prompt = <<>>
    /\ frames = <<ErrorFrame(<<"get_conversation_title failed">>)>>
    /\ engine = "idle"
    /\ produced = <<>>
    /\ fwd_pc = "idle"
    /\ fwd_token = NoneItem
    /\ loop_state = "closed"
    /\ ready = <<>>
    /\ todo = 0
    /\ queue = <<>>
    /\ getter = FALSE
    /\ consumed = <<>>
    /\ thread_joined = FALSE
    /\ faults = MaxRequests - 1
    /\ pre_len = 0
    /\ title_log = <<>>
    /\ cancelled_early = {}
    /\ completed = {}
    /\ enq_stopped = FALSE
    /\ yielded = 0
    /\ fn_in = <<>>
    /\ fn_max = 0
    /\ fn_sys = <<>>
    /\ fn_out = <<>>
    /\ fn_pc = "off"
    /\ SideIdle

\* The forwarding thread is scheduled whenever it can take a step; that the
\* generate call, unless it fails, returns (its length is capped by the
\* generation configuration) is the assumption under which the thread's
\* termination is claimed.  While generate runs or after it has returned,
\* the blocking read of the streamer (ChatModel.py 122, no timeout) comes
\* back with a fragment or with the end of the stream.  After generate has
\* failed the streamer may be empty and is never ended: the read may then
\* block for ever, so no receive is required of the thread.
FwdReceives ==
    /\ engine # "failed"
    /\ (FwdStop \/ \E t \in TokensAt(Len(produced) + 1) : FwdNext(t))

FairSpec ==
    /\ InitLast
    /\ [][Next]_vars
    /\ WF_vars(EngineDone)
    /\ WF_vars(FwdReceives)
    /\ WF_vars(FwdSubmit)
    /\ WF_vars(FwdFinalSubmit)

\* The last request of a run with every step that is enabled eventually
\* taken: the forwarding thread, the event loop, the generators and the
\* server asking for the next frame.  The store failures of the run are
\* used up before this request.
FairRequestSpec ==
    /\ InitLast
    /\ [][Next]_vars
    /\ WF_vars(EngineDone)
    /\ WF_vars(FwdReceives)
    /\ WF_vars(FwdSubmit)
    /\ WF_vars(FwdFinalSubmit)
    /\ WF_vars(LoopRunOnce)
    /\ WF_vars(LoopRunCallback)
    /\ WF_vars(LoopRunPut)
    /\ WF_vars(LoopRunStop)
    /\ WF_vars(SyncNext)
    /\ WF_vars(GetConversation)
    /\ WF_vars(StreamResponseBegin)
    /\ WF_vars(StreamTokens)
    /\ WF_vars(StreamComplete)
    /\ WF_vars(ResumeAfterTitle)
    /\ WF_vars(ResumeFinish)

(* ---------------- a store that already holds exchanges ------------------ *)
\* The state after max_history + 1 exchanges "hi" -> "a" were completed and
\* the process was restarted: the rows as stream_response persists them (the
\* assistant row carries the user turn's timestamp), the title recorded, an
\* empty registry.  Requests of the earlier process are numbered <= 0.
WarmExchanges == max_history + 1

WarmRows ==
    [i \in 1..(2 * WarmExchanges) |->
        LET e == (i + 1) \div 2
        IN Row(IF i % 2 = 1 THEN "user" ELSE "assistant",
               IF i % 2 = 1 THEN augment(<<"hi">>, <<"ctx">>) ELSE <<"a">>,
               IsoFormat(3 * (e - 1) + 1),
               e - WarmExchanges)]

InitWarm ==
    /\ db_conversation = Record(TextTitle(<<"Greeting">>))
    /\ db_messages = WarmRows
    /\ registered = FALSE
    /\ messages = <<>>
    /\ clock = 3 * WarmExchanges + 1
    /\ reqNo = 0
    /\ sync_pc = "none"
    /\ ctl_pc = "none"
    /\ message = <<>>
    /\ client_message = <<>>
    /\ is_first_message = FALSE
    /\ user_ts = 0
    /\ current_response = <<>>
    /\ sm_response = <<>>
    /\ prompt = <<>>
    /\ frames = <<>>
    /\ engine = "idle"
    /\ produced = <<>>
    /\ fwd_pc = "idle"
    /\ fwd_token = NoneItem
    /\ loop_state = "none"
    /\ ready = <<>>
    /\ todo = 0
    /\ queue = <<>>
    /\ getter = FALSE
    /\ consumed = <<>>
    /\ thread_joined = FALSE
    /\ faults = 0
    /\ pre_len = 0
    /\ title_log = << <<1 - WarmExchanges, 0>> >>
    /\ cancelled_early = {}
    /\ completed = {e - WarmExchanges : e \in 1..WarmExchanges}
    /\ enq_stopped = FALSE
    /\ yielded = 0
    /\ fn_in = <<>>
    /\ fn_max = 0
    /\ fn_sys = <<>>
    /\ fn_out = <<>>
    /\ fn_pc = "off"
    /\ SideIdle

SpecWarm == InitWarm /\ [][Next]_vars

\* the restarted process before the last two requests of its run
InitWarmRun ==
    /\ db_conversation = Record(TextTitle(<<"Greeting">>))
    /\ db_messages = WarmRows
    /\ clock = 3 * WarmExchanges + 1
    /\ title_log = << <<1 - WarmExchanges, 0>> >>
    /\ completed = {e - WarmExchanges : e \in 1..WarmExchanges}
    /\ AfterRefused(RefusedRequests)

SpecWarmRun == InitWarmRun /\ [][Next]_vars

(* ------------------------- the session registry ------------------------ *)
\* The chat route, the relay and the pure-function harness at rest.
ChatIdle ==
    /\ db_conversation = NoRecord
    /\ db_messages = <<>>
    /\ registered = FALSE
    /\ messages = <<>>
    /\ clock = 1
    /\ reqNo = 0
    /\ sync_pc = "none"
    /\ ctl_pc = "none"
    /\ message = <<>>
    /\ client_message = <<>>
    /\ is_first_message = FALSE
    /\ user_ts = 0
    /\ current_response = <<>>
    /\ sm_response = <<>>
    /\ prompt = <<>>
    /\ frames = <<>>
    /\ engine = "idle"
    /\ produced = <<>>
    /\ fwd_pc = "idle"
    /\ fwd_token = NoneItem
    /\ loop_state = "none"
    /\ ready = <<>>
    /\ todo = 0
    /\ queue = <<>>
    /\ getter = FALSE
    /\ consumed = <<>>
    /\ thread_joined = FALSE
    /\ faults = 0
    /\ pre_len = 0
    /\ title_log = <<>>
    /\ cancelled_early = {}
    /\ completed = {}
    /\ enq_stopped = FALSE
    /\ yielded = 0

FnIdle ==
    /\ fn_in = <<>>
    /\ fn_max = 0
    /\ fn_sys = <<>>
    /\ fn_out = <<>>
    /\ fn_pc = "off"

\* Flask serves each request in a thread of its own; the threads share the
\* ChatAPI object and the store.  A thread can be preempted between any two
\* of the steps below (each store call releases the interpreter lock).
\* Conversation "c1" was used by an earlier process: its record and its rows
\* are in the store.  Conversation "c2" is new.
InitReg ==
    /\ ChatIdle
    /\ FnIdle
    /\ LegacyIdle
    /\ PairIdle
    /\ OwnIdle
    /\ user_conversations = [k \in ConversationIds |-> 0]
    /\ conversations = <<>>
    /\ conv_records = [k \in ConversationIds |->
                          IF k = "c1" THEN Record(TextTitle(<<"Greeting">>))
                          ELSE NoRecord]
    /\ threads = [t \in Threads |-> IdleThread]
    /\ returned = <<>>
    /\ calls = 0
    /\ history_files = [k \in ConversationIds |-> NoFile]
    /\ user_keys = <<>>

\* ChatAPI.get_conversation, lines 127-130: the call and the membership test.
GetConversationCall(t, k) ==
    /\ threads[t].pc = "idle"
    /\ calls < MaxCalls
    /\ calls' = calls + 1
    /\ threads' = [threads EXCEPT ![t] =
                      [IdleThread EXCEPT
                         !.pc = IF user_conversations[k] = 0 THEN "title" ELSE "return",
                         !.op = "get", !.conversation_id = k,
                         !.fresh = (user_conversations[k] = 0),
                         !.since = Len(returned),
                         !.had_record = conv_records[k].present,
                         !.status = "running"]]
    /\ UNCHANGED <<chatVars, fnVars, pairVars, ownVars, legacyVars, history_files,
                   user_conversations, user_keys, conversations, conv_records, returned>>

\* line 134: existing_title = self.db.get_conversation_title(conversation_id)
GetConversationTitle(t) ==
    /\ threads[t].pc = "title"
    /\ LET title == get_conversation_title(conv_records[threads[t].conversation_id])
       IN threads' = [threads EXCEPT ![t].existing_title = title,
                                     ![t].pc = IF title.none THEN "add" ELSE "create"]
    /\ UNCHANGED <<chatVars, fnVars, pairVars, ownVars, legacyVars, history_files,
                   user_conversations, user_keys, conversations, conv_records, returned,
                   calls>>

\* Database.add_conversation: INSERT into user_conversations, whose column
\* conversation_id is UNIQUE; a second record for the id is refused with
\* sqlite3.IntegrityError, which get_conversation logs and re-raises.
add_conversation(recs, k, title) ==
    IF recs[k].present THEN [ok |-> FALSE, recs |-> recs]
    ELSE [ok |-> TRUE, recs |-> [recs EXCEPT ![k] = Record(title)]]

\* lines 135-137 and 149-151
AddConversation(t) ==
    /\ threads[t].pc = "add"
    /\ LET r == add_conversation(conv_records, threads[t].conversation_id,
                                 TextTitle(<<"New Conversation">>))
       IN /\ conv_records' = r.recs
          /\ threads' = [threads EXCEPT
                            ![t].pc = IF r.ok THEN "create" ELSE "idle",
                            ![t].status = IF r.ok THEN "running" ELSE "raised"]
    /\ UNCHANGED <<chatVars, fnVars, pairVars, ownVars, legacyVars, history_files,
                   user_conversations, user_keys, conversations, returned, calls>>

\* the registry after the assignment of object o to the entry of id k: a
\* new key goes to the end of the dict, an existing key keeps its place
assign_entry(k, o) ==
    [user_conversations |-> [user_conversations EXCEPT ![k] = o],
     user_keys |-> IF user_conversations[k] = 0 THEN Append(user_keys, k)
                   ELSE user_keys]

\* lines 140-146, the right-hand side: a Conversation is constructed with
\* the ChatAPI's max_history and store; its __init__ loads its messages from
\* the store.  The object is not in the registry yet.
CreateConversation(t) ==
    /\ threads[t].pc = "create"
    /\ LET k == threads[t].conversation_id
       IN conversations' = Append(conversations,
                              [id |-> k, messages |-> load_messages(IF k = "c1" THEN WarmRows ELSE <<>>, TRUE),
                               max_history |-> max_history, db |-> "app"])
    /\ threads' = [threads EXCEPT ![t].pc = "assign",
                                  ![t].object = Len(conversations) + 1]
    /\ UNCHANGED <<chatVars, fnVars, pairVars, ownVars, legacyVars, history_files,
                   user_conversations, user_keys, conv_records, returned, calls>>

\* line 140, the assignment: the constructed object becomes the registry
\* entry of the id, whatever the entry holds by now
AssignConversation(t) ==
    /\ threads[t].pc = "assign"
    /\ LET a == assign_entry(threads[t].conversation_id, threads[t].object)
       IN /\ user_conversations' = a.user_conversations
          /\ user_keys' = a.user_keys
    /\ threads' = [threads EXCEPT ![t].pc = "return"]
    /\ UNCHANGED <<chatVars, fnVars, pairVars, ownVars, legacyVars, history_files,
                   conversations, conv_records, returned, calls>>

\* line 148: return self.user_conversations[user_id][conversation_id]
GetConversationReturn(t) ==
    /\ threads[t].pc = "return"
    /\ returned' = Append(returned,
                      [thread |-> t, conversation_id |-> threads[t].conversation_id,
                       object |-> user_conversations[threads[t].conversation_id],
                       fresh |-> threads[t].fresh, since |-> threads[t].since])
    /\ threads' = [threads EXCEPT ![t].pc = "idle", ![t].status = "returned"]
    /\ UNCHANGED <<chatVars, fnVars, pairVars, ownVars, legacyVars, history_files,
                   user_conversations, user_keys, conversations, conv_records, calls>>

\* Routes.clear_conversation: chat_api.get_conversation(conversation_id) is
\* called with one argument where the method takes (user_id,
\* conversation_id); the TypeError of the call is caught by the handler,
\* which answers {"error": ...} with status 500.  clear_history is not
\* reached.
ClearConversation(t, k) ==
    /\ threads[t].pc = "idle"
    /\ calls < MaxCalls
    /\ calls' = calls + 1
    /\ threads' = [threads EXCEPT ![t] =
                      [IdleThread EXCEPT
                         !.op = "clear", !.conversation_id = k,
                         !.since = Len(returned),
                         !.had_record = conv_records[k].present,
                         !.status = "error"]]
    /\ UNCHANGED <<chatVars, fnVars, pairVars, ownVars, legacyVars, history_files,
                   user_conversations, user_keys, conversations, conv_records, returned>>

\* Conversation.clear_history (Conversation.py 152-154) on an object a
\* caller holds, through the registry or from a get_conversation that
\* returned it: self.messages = [].  The store is not touched.
ClearHistory(o) ==
    /\ o \in DOMAIN conversations
    /\ \/ \E k \in ConversationIds : user_conversations[k] = o
       \/ \E i \in DOMAIN returned : returned[i].object = o
    /\ conversations' = [conversations EXCEPT ![o].messages = <<>>]
    /\ UNCHANGED <<chatVars, fnVars, pairVars, ownVars, legacyVars, history_files,
                   user_conversations, user_keys, conv_records, threads, returned, calls>>

\* the title a client posts to the create-conversation route: a text, or
\* JSON null, which data.get('title', 'New Conversation') passes on as None
PostedTitles == {TextTitle(<<"New Conversation">>), NoneTitle}

\* Routes.create_conversation: a new uuid4 id, which nothing refers to yet,
\* is recorded with the posted title.
CreateConversationRoute(t, k, title) ==
    /\ threads[t].pc = "idle"
    /\ calls < MaxCalls
    /\ ~conv_records[k].present
    /\ user_conversations[k] = 0
    /\ \A o \in Threads : threads[o].pc = "idle" \/ threads[o].conversation_id # k
    /\ calls' = calls + 1
    /\ conv_records' = add_conversation(conv_records, k, title).recs
    /\ threads' = [threads EXCEPT ![t] =
                      [IdleThread EXCEPT
                         !.op = "create", !.conversation_id = k,
                         !.since = Len(returned), !.status = "created"]]
    /\ UNCHANGED <<chatVars, fnVars, pairVars, ownVars, legacyVars, history_files,
                   user_conversations, user_keys, conversations, returned>>

\* The for statement of save_user_conversations over the items of the
\* registry dict (line 210) asks for the next item, having taken pos of
\* them, with the dict holding size keys when the iteration began: a dict
\* that has another number of keys by now makes the iterator raise
\* RuntimeError (dictionary changed size during iteration), which the
\* method does not catch; otherwise the next key in insertion order comes
\* with the object the entry holds now, or the iteration ends.
save_next(th, pos, size) ==
    IF Len(user_keys) # size
    THEN [th EXCEPT !.pc = "idle", !.status = "raised"]
    ELSE IF pos < Len(user_keys)
    THEN [th EXCEPT !.pc = "save_history", !.pos = pos + 1, !.size = size,
                    !.conversation_id = user_keys[pos + 1],
                    !.object = user_conversations[user_keys[pos + 1]]]
    ELSE [th EXCEPT !.pc = "idle", !.status = "returned"]

\* ChatAPI.save_user_conversations, lines 202-210: the call up to the first
\* item of the iteration.  (Whether the user has a registry dict and whether
\* the directory exists changes no file and no registry entry.)
SaveUserConversations(t) ==
    /\ threads[t].pc = "idle"
    /\ calls < MaxCalls
    /\ calls' = calls + 1
    /\ threads' = [threads EXCEPT ![t] =
                      save_next([IdleThread EXCEPT
                                    !.op = "save",
                                    !.conversation_id = threads[t].conversation_id,
                                    !.since = Len(returned), !.status = "running"],
                                0, Len(user_keys))]
    /\ UNCHANGED <<chatVars, fnVars, pairVars, ownVars, legacyVars, history_files,
                   user_conversations, user_keys, conversations, conv_records, returned>>

\* lines 211-212, Conversation.save_history (Conversation.py 120-125): the
\* messages the object holds now are taken for the dump
SaveHistory(t) ==
    /\ threads[t].pc = "save_history"
    /\ threads' = [threads EXCEPT ![t].pc = "save_open",
                                  ![t].dump = conversations[threads[t].object].messages]
    /\ UNCHANGED <<chatVars, fnVars, pairVars, ownVars, legacyVars, history_files,
                   user_conversations, user_keys, conversations, conv_records, returned,
                   calls>>

\* save_history line 126: open(file_path, 'w') creates the file or cuts it
\* to nothing; json.dump writes into the buffer of the file object
SaveOpen(t) ==
    /\ threads[t].pc = "save_open"
    /\ history_files' = [history_files EXCEPT ![threads[t].conversation_id] =
                            [present |-> TRUE, valid |-> FALSE, messages |-> <<>>,
                             length |-> 0]]
    /\ threads' = [threads EXCEPT ![t].pc = "save_close"]
    /\ UNCHANGED <<chatVars, fnVars, pairVars, ownVars, legacyVars, user_conversations,
                   user_keys, conversations, conv_records, returned, calls>>

\* the end of the with statement (line 127): the file object is closed and
\* its buffer written from the start of the file.  Text that another
\* writer has put there since the open stays beyond the end of this text
\* when it is longer, and the file is no JSON then.
SaveClose(t) ==
    /\ threads[t].pc = "save_close"
    /\ LET f == history_files[threads[t].conversation_id]
           d == threads[t].dump
           whole == f.length <= Len(d)
       IN history_files' = [history_files EXCEPT ![threads[t].conversation_id] =
              [present |-> TRUE, valid |-> whole,
               messages |-> IF whole THEN d ELSE <<>>,
               length |-> IF whole THEN Len(d) ELSE f.length]]
    /\ threads' = [threads EXCEPT ![t].pc = "save_next"]
    /\ UNCHANGED <<chatVars, fnVars, pairVars, ownVars, legacyVars, user_conversations,
                   user_keys, conversations, conv_records, returned, calls>>

\* line 210 again: the next item of the iteration
SaveNext(t) ==
    /\ threads[t].pc = "save_next"
    /\ threads' = [threads EXCEPT ![t] = save_next(@, @.pos, @.size)]
    /\ UNCHANGED <<chatVars, fnVars, pairVars, ownVars, legacyVars, history_files,
                   user_conversations, user_keys, conversations, conv_records, returned,
                   calls>>

\* the orders in which os.listdir can give the files of the ids of S
listdir(S) ==
    {f \in [1..Cardinality(S) -> S] : \A i, j \in DOMAIN f : i # j => f[i] # f[j]}

\* the loop of load_user_conversations goes on to the next file name, if any
load_next(th, files) ==
    IF files = <<>>
    THEN [th EXCEPT !.pc = "idle", !.status = "returned", !.files = <<>>]
    ELSE [th EXCEPT !.pc = "load_history", !.files = Tail(files),
                    !.conversation_id = Head(files)]

\* ChatAPI.load_user_conversations, lines 214-223: the call up to the first
\* file name of os.listdir, which gives the files in any order
LoadUserConversations(t, files) ==
    /\ threads[t].pc = "idle"
    /\ calls < MaxCalls
    /\ files \in listdir({k \in ConversationIds : history_files[k].present})
    /\ calls' = calls + 1
    /\ threads' = [threads EXCEPT ![t] =
                      load_next([IdleThread EXCEPT
                                    !.op = "load",
                                    !.conversation_id = threads[t].conversation_id,
                                    !.since = Len(returned), !.status = "running"],
                                files)]
    /\ UNCHANGED <<chatVars, fnVars, pairVars, ownVars, legacyVars, history_files,
                   user_conversations, user_keys, conversations, conv_records, returned>>

\* Conversation.load_history (Conversation.py 129-150), line 226 of
\* ChatApi.py: the file gives a new Conversation, constructed with the
\* default max_history and a store of its own, whose messages are the
\* file's.  The object is not in the registry yet.  A file that is no JSON
\* (cut by a save that has not written yet, or mixed by two saves) makes
\* json.load raise JSONDecodeError, which neither method catches.
load_history(t) ==
    /\ threads[t].pc = "load_history"
    /\ LET f == history_files[threads[t].conversation_id]
       IN IF f.valid
          THEN /\ conversations' = Append(conversations,
                      [id |-> threads[t].conversation_id,
                       messages |-> f.messages,
                       max_history |-> default_max_history,
                       db |-> "default"])
               /\ threads' = [threads EXCEPT ![t].pc = "load_assign",
                                             ![t].object = Len(conversations) + 1]
          ELSE /\ threads' = [threads EXCEPT ![t].pc = "idle", ![t].status = "raised",
                                             ![t].files = <<>>]
               /\ UNCHANGED conversations
    /\ UNCHANGED <<chatVars, fnVars, pairVars, ownVars, legacyVars, history_files,
                   user_conversations, user_keys, conv_records, returned, calls>>

\* line 227: the loaded object becomes the registry entry of its id, then
\* the loop goes on
LoadAssign(t) ==
    /\ threads[t].pc = "load_assign"
    /\ LET a == assign_entry(threads[t].conversation_id, threads[t].object)
       IN /\ user_conversations' = a.user_conversations
          /\ user_keys' = a.user_keys
    /\ threads' = [threads EXCEPT ![t] = load_next(@, @.files)]
    /\ UNCHANGED <<chatVars, fnVars, pairVars, ownVars, legacyVars, history_files,
                   conversations, conv_records, returned, calls>>

NextReg ==
    \/ \E t \in Threads :
        \/ \E k \in ConversationIds, title \in PostedTitles :
              CreateConversationRoute(t, k, title)
        \/ \E k \in ConversationIds : GetConversationCall(t, k)
        \/ GetConversationTitle(t)
        \/ AddConversation(t)
        \/ CreateConversation(t)
        \/ AssignConversation(t)
        \/ GetConversationReturn(t)
        \/ \E k \in ConversationIds : ClearConversation(t, k)
        \/ SaveUserConversations(t)
        \/ SaveHistory(t)
        \/ SaveOpen(t)
        \/ SaveClose(t)
        \/ SaveNext(t)
        \/ \E files \in listdir({k \in ConversationIds : history_files[k].present}) :
              LoadUserConversations(t, files)
        \/ load_history(t)
        \/ LoadAssign(t)
    \/ \E o \in DOMAIN conversations : ClearHistory(o)

SpecReg == InitReg /\ [][NextReg]_vars

(* -------------------- two requests streaming at once -------------------- *)
\* Each chat request runs in a request thread of its own.  sync_stream
\* creates the request's event loop (Routes.py 155-156); _astream creates the
\* request's streamer (ChatModel.py 95-99), its two threads (113, 134) and
\* its queue (118), and asyncio.get_event_loop() (117) gives the loop that is
\* running the coroutine, the request's own.  All of them are locals of the
\* call.  The session and the store rows of the two requests belong to
\* different conversations.
\* A queue object held on the shared chat model instead of a local.
queue_shared(r) == 1
\* ChatModel._astream line 118: queue = asyncio.Queue(), a local of the call
queue_of(r) == r

\* Both requests are first messages of new conversations and have entered
\* the token loop: their threads are started and their consumers are
\* suspended in queue.get().
InitPair ==
    /\ ChatIdle
    /\ FnIdle
    /\ LegacyIdle
    /\ RegIdle
    /\ OwnIdle
    /\ streamers = [r \in Requests |-> <<>>]
    /\ forwarders = [r \in Requests |-> [pc |-> "next", token |-> NoneItem]]
    /\ loops = [r \in Requests |-> [state |-> "running", ready |-> <<>>, todo |-> 0]]
    /\ queues = [r \in Requests |-> <<>>]
    /\ consumers = [r \in Requests |-> [pc |-> "tokens", sync |-> "running",
                                         getter |-> TRUE, frames |-> <<>>,
                                         response |-> <<>>]]

\* streamer_to_queue lines 122-124 for request r
PairFwdNext(r) ==
    /\ forwarders[r].pc = "next"
    /\ Len(streamers[r]) < MaxPairTokens
    /\ LET t == FragmentOf(r, Len(streamers[r]) + 1)
       IN /\ streamers' = [streamers EXCEPT ![r] = Append(@, t)]
          /\ forwarders' = [forwarders EXCEPT ![r] =
                IF loops[r].state = "closed" THEN [pc |-> "exited", token |-> @.token]
                ELSE [pc |-> "submit", token |-> TokenItem(t)]]
    /\ UNCHANGED <<chatVars, fnVars, regVars, ownVars, legacyVars, loops, queues, consumers>>

\* the generation of request r ends: line 129
PairFwdStop(r) ==
    /\ forwarders[r].pc = "next"
    /\ forwarders' = [forwarders EXCEPT ![r].pc =
          IF loops[r].state = "closed" THEN "exited" ELSE "final_submit"]
    /\ UNCHANGED <<chatVars, fnVars, regVars, ownVars, legacyVars, streamers, loops, queues, consumers>>

\* lines 125-128 for request r
PairFwdSubmit(r) ==
    /\ forwarders[r].pc = "submit"
    /\ IF loops[r].state = "closed"
       THEN /\ forwarders' = [forwarders EXCEPT ![r].pc = "exited"]
            /\ UNCHANGED loops
       ELSE /\ forwarders' = [forwarders EXCEPT ![r].pc = "next"]
            /\ loops' = [loops EXCEPT ![r].ready = Append(@, CbHandle(forwarders[r].token))]
    /\ UNCHANGED <<chatVars, fnVars, regVars, ownVars, legacyVars, streamers, queues, consumers>>

\* line 130 for request r
PairFwdFinalSubmit(r) ==
    /\ forwarders[r].pc = "final_submit"
    /\ forwarders' = [forwarders EXCEPT ![r].pc = "exited"]
    /\ loops' = IF loops[r].state = "closed" THEN loops
                ELSE [loops EXCEPT ![r].ready = Append(@, CbHandle(NoneItem))]
    /\ UNCHANGED <<chatVars, fnVars, regVars, ownVars, legacyVars, streamers, queues, consumers>>

\* the loop of request r begins a pass of _run_once
PairLoopRunOnce(r) ==
    /\ loops[r].state = "running"
    /\ loops[r].todo = 0
    /\ loops[r].ready # <<>>
    /\ loops' = [loops EXCEPT ![r].todo = Len(loops[r].ready)]
    /\ UNCHANGED <<chatVars, fnVars, regVars, ownVars, legacyVars, streamers, forwarders,
                   queues, consumers>>

\* the loop of request r is inside a pass and its next handle is of kind k
PairLoopRuns(r, k) ==
    /\ loops[r].state \in {"running", "stopping"}
    /\ loops[r].todo > 0
    /\ loops[r].ready # <<>>
    /\ Head(loops[r].ready).h = k

\* A handle of the loop of request r has run, leaving rdy ready and the loop
\* in state st: the loop and the position of sync_stream afterwards.  After
\* the last handle of a pass a stopping loop leaves run_forever (Routes.py
\* 160-165).
PairHandleDone(r, rdy, st, pc) ==
    IF loops[r].todo = 1 /\ st = "stopping"
    THEN IF pc = "finished"
         THEN [loop |-> [state |-> "closed", ready |-> <<>>, todo |-> 0],
               sync |-> "ended"]
         ELSE [loop |-> [state |-> "stopped", ready |-> rdy, todo |-> 0],
               sync |-> "yielded"]
    ELSE [loop |-> [state |-> st, ready |-> rdy, todo |-> loops[r].todo - 1],
          sync |-> consumers[r].sync]

\* the loop of request r runs the callback of run_coroutine_threadsafe
PairLoopRunCallback(r) ==
    /\ PairLoopRuns(r, "cb")
    /\ LET l == loops[r]
           d == PairHandleDone(r, Append(Tail(l.ready), PutHandle(Head(l.ready).item)),
                               l.state, consumers[r].pc)
       IN /\ loops' = [loops EXCEPT ![r] = d.loop]
          /\ consumers' = [consumers EXCEPT ![r].sync = d.sync]
    /\ UNCHANGED <<chatVars, fnVars, regVars, ownVars, legacyVars, streamers, forwarders, queues>>

\* the loop of request r runs the task of queue.put(item); the consumers
\* suspended in get() on that queue are scheduled
PairLoopRunPut(r) ==
    /\ PairLoopRuns(r, "put")
    /\ LET q == queue_of(r)
           woken == {c \in Requests : queue_of(c) = q /\ consumers[c].getter}
           rest == Tail(loops[r].ready)
           d == PairHandleDone(r, IF r \in woken THEN Append(rest, WakeHandle) ELSE rest,
                               loops[r].state, consumers[r].pc)
       IN /\ queues' = [queues EXCEPT ![q] = Append(@, Head(loops[r].ready).item)]
          /\ consumers' = [c \in Requests |->
                [consumers[c] EXCEPT
                    !.getter = IF c \in woken THEN FALSE ELSE @,
                    !.sync = IF c = r THEN d.sync ELSE @]]
          /\ loops' = [l \in Requests |->
                IF l = r THEN d.loop
                ELSE IF l \in woken
                THEN [loops[l] EXCEPT !.ready = Append(@, WakeHandle)]
                ELSE loops[l]]
    /\ UNCHANGED <<chatVars, fnVars, regVars, ownVars, legacyVars, streamers, forwarders>>

\* the loop of request r runs _run_until_complete_cb: loop.stop()
PairLoopRunStop(r) ==
    /\ PairLoopRuns(r, "stop")
    /\ LET d == PairHandleDone(r, Tail(loops[r].ready), "stopping", consumers[r].pc)
       IN /\ loops' = [loops EXCEPT ![r] = d.loop]
          /\ consumers' = [consumers EXCEPT ![r].sync = d.sync]
    /\ UNCHANGED <<chatVars, fnVars, regVars, ownVars, legacyVars, streamers, forwarders, queues>>

\* the consumer loops of request r resume (ChatModel.py 137-143,
\* Conversation.py 75-79, ChatApi.py 184-194): the next token frame is
\* yielded, or the sentinel ends the generation and, the message being the
\* conversation's first, the title frame is yielded, or the consumer suspends
\* again in queue.get()
PairStreamTokens(r, title) ==
    /\ consumers[r].sync = "running"
    /\ consumers[r].pc = "tokens"
    /\ PairLoopRuns(r, "wake")
    /\ LET q == queue_of(r)
           l == loops[r]
           c == consumers[r]
           d == Drain(queues[q], c.response, c.response, <<>>)
           hs == PairHandleDone(r, Tail(l.ready), l.state, c.pc)
           hy == PairHandleDone(r, Append(Tail(l.ready), StopHandle), l.state, c.pc)
       IN /\ queues' = [queues EXCEPT ![q] = d.queue]
          /\ IF d.at = "empty"
             THEN /\ consumers' = [consumers EXCEPT ![r].getter = TRUE, ![r].sync = hs.sync]
                  /\ loops' = [loops EXCEPT ![r] = hs.loop]
             ELSE /\ consumers' = [consumers EXCEPT ![r] =
                        [pc |-> IF d.at = "frame" THEN "tokens" ELSE "title_yielded",
                         sync |-> hy.sync,
                         getter |-> FALSE,
                         frames |-> Append(c.frames,
                                       IF d.at = "frame" THEN TokenFrame(d.text)
                                       ELSE TitleFrame(title)),
                         response |-> d.cur]]
                  /\ loops' = [loops EXCEPT ![r] = hy.loop]
    /\ UNCHANGED <<chatVars, fnVars, regVars, ownVars, legacyVars, streamers, forwarders>>

\* stream_response of request r resumes after the title frame and yields the
\* final frame (ChatApi.py 196), or resumes after the final frame and returns
PairResume(r) ==
    /\ consumers[r].sync = "running"
    /\ consumers[r].pc \in {"title_yielded", "final_yielded"}
    /\ PairLoopRuns(r, "wake")
    /\ LET l == loops[r]
           c == consumers[r]
           pc == IF c.pc = "title_yielded" THEN "final_yielded" ELSE "finished"
           d == PairHandleDone(r, Append(Tail(l.ready), StopHandle), l.state, pc)
       IN /\ consumers' = [consumers EXCEPT ![r] =
                [c EXCEPT !.pc = pc,
                          !.sync = d.sync,
                          !.frames = IF c.pc = "title_yielded"
                                     THEN Append(c.frames, FinalFrame) ELSE c.frames]]
          /\ loops' = [loops EXCEPT ![r] = d.loop]
    /\ UNCHANGED <<chatVars, fnVars, regVars, ownVars, legacyVars, streamers, forwarders, queues>>

\* sync_stream of request r asks for the next frame (Routes.py 160)
PairSyncNext(r) ==
    /\ consumers[r].sync = "yielded"
    /\ consumers' = [consumers EXCEPT ![r].sync = "running"]
    /\ loops' = [loops EXCEPT ![r] =
                    [state |-> "running", ready |-> Append(@.ready, WakeHandle),
                     todo |-> 0]]
    /\ UNCHANGED <<chatVars, fnVars, regVars, ownVars, legacyVars, streamers, forwarders, queues>>

\* the client of request r goes away: sync_stream is closed at its yield
\* (Routes.py 161) and its finally clause closes the loop (164-165)
PairClientDisconnect(r) ==
    /\ consumers[r].sync = "yielded"
    /\ consumers' = [consumers EXCEPT ![r].sync = "cancelled"]
    /\ loops' = [loops EXCEPT ![r] = [state |-> "closed", ready |-> <<>>, todo |-> 0]]
    /\ UNCHANGED <<chatVars, fnVars, regVars, ownVars, legacyVars, streamers, forwarders, queues>>

NextPair ==
    \E r \in Requests :
        \/ PairFwdNext(r)
        \/ PairFwdStop(r)
        \/ PairFwdSubmit(r)
        \/ PairFwdFinalSubmit(r)
        \/ PairLoopRunOnce(r)
        \/ PairLoopRunCallback(r)
        \/ PairLoopRunPut(r)
        \/ PairLoopRunStop(r)
        \/ \E title \in Titles : PairStreamTokens(r, title)
        \/ PairResume(r)
        \/ PairSyncNext(r)
        \/ PairClientDisconnect(r)

SpecPair == InitPair /\ [][NextPair]_vars

(* ----------------------- several users, one store ----------------------- *)
\* Requests of several logged-in users, each served by a thread of its own
\* and ending normally: a chat request sends "hi", its generation gives "a"
\* and, for a first message, the title "Greeting".  A user has at most one
\* request to each route in flight.  A thread can be preempted at every
\* store call, at every frame it hands to the server and before it returns
\* its answer; a state shows each thread inside the call it makes next, and
\* the step that leaves the state is that call taking effect.  responses
\* lists the answers in the order in which the requests end.  Rows carry in
\* field by the user whose request wrote them.  The clock advances by one
\* tick at every user_msg of stream_response.
OwnRow(role, content, u, ts) ==
    [role |-> role, content |-> content, timestamp |-> IsoFormat(ts), by |-> u]

InitOwn ==
    /\ ChatIdle
    /\ FnIdle
    /\ LegacyIdle
    /\ RegIdle
    /\ PairIdle
    /\ OwnIdle

\* ChatAPI.get_conversation lines 127-130 for the thread of slot s: the
\* membership test in the registry, keyed by user and id
OwnGetConversation(s, c) ==
    own_threads' = [own_threads EXCEPT ![s] =
        [OwnIdleThread EXCEPT
            !.pc = IF sessions[<<s[1], c>>].registered THEN "return" ELSE "title",
            !.id = c]]

\* Routes.chat for user u on conversation id c up to the membership test of
\* get_conversation: no test of who owns the record of c.
OwnChat(u, c) ==
    /\ own_threads[<<u, "chat">>].pc = "idle"
    /\ own_calls < MaxOwnCalls
    /\ own_calls' = own_calls + 1
    /\ OwnGetConversation(<<u, "chat">>, c)
    /\ UNCHANGED <<chatVars, fnVars, regVars, pairVars, legacyVars, uc_table, cm_table,
                   sessions, own_objects, responses,
                   own_clock>>

\* Routes.get_conversation_history, lines 187-197: the COUNT(*) of the
\* records of c with user_id u.  With a count of 0 the route goes on to
\* answer 404 (line 196), which it does in a later step; otherwise it goes
\* on to the membership test of get_conversation (a record of c of user u
\* stays one).
OwnHistory(u, c) ==
    /\ own_threads[<<u, "history">>].pc = "idle"
    /\ own_calls < MaxOwnCalls
    /\ own_calls' = own_calls + 1
    /\ IF ~(uc_table[c].present /\ uc_table[c].user_id = u)
       THEN own_threads' = [own_threads EXCEPT ![<<u, "history">>] =
                [OwnIdleThread EXCEPT !.pc = "answer", !.id = c, !.status = "404"]]
       ELSE OwnGetConversation(<<u, "history">>, c)
    /\ UNCHANGED <<chatVars, fnVars, regVars, pairVars, legacyVars, uc_table, cm_table,
                   sessions, own_objects, responses,
                   own_clock>>

\* line 134: the store is asked for the title by id alone
OwnGetTitle(s) ==
    /\ own_threads[s].pc = "title"
    /\ LET rec == uc_table[own_threads[s].id]
           none == ~rec.present \/ rec.title.none
       IN own_threads' = [own_threads EXCEPT ![s].pc = IF none THEN "add" ELSE "create"]
    /\ UNCHANGED <<chatVars, fnVars, regVars, pairVars, legacyVars, uc_table, cm_table,
                   sessions, own_objects, responses, own_calls, own_clock>>

\* lines 135-137: a record is added for the calling user; the INSERT is
\* refused when the id has a record by now and get_conversation re-raises
\* (149-151): stream_response goes on to yield its error frame, the history
\* route to answer 500
OwnAddConversation(s) ==
    /\ own_threads[s].pc = "add"
    /\ LET c == own_threads[s].id
       IN IF uc_table[c].present
          THEN /\ own_threads' = [own_threads EXCEPT
                      ![s].pc = IF s[2] = "chat" THEN "error_yielded" ELSE "answer",
                      ![s].status = IF s[2] = "chat" THEN "" ELSE "500"]
               /\ UNCHANGED uc_table
          ELSE /\ uc_table' = [uc_table EXCEPT ![c] =
                      [present |-> TRUE, user_id |-> s[1],
                       title |-> TextTitle(<<"New Conversation">>)]]
               /\ own_threads' = [own_threads EXCEPT ![s].pc = "create"]
    /\ UNCHANGED <<chatVars, fnVars, regVars, pairVars, legacyVars, cm_table, sessions,
                   own_objects, responses, own_calls, own_clock>>

\* lines 140-146, the right-hand side: the Conversation is constructed and
\* loads the rows of the id, which the store gives ordered by timestamp
OwnConstruct(s) ==
    /\ own_threads[s].pc = "create"
    /\ LET c == own_threads[s].id
           rows == get_conversation_messages(cm_table[c])
           loaded == [i \in 1..Len(rows) |->
                         [role |-> rows[i].role, content |-> rows[i].content]]
       IN own_objects' = Append(own_objects, [id |-> c, messages |-> loaded])
    /\ own_threads' = [own_threads EXCEPT ![s].pc = "assign",
                                          ![s].object = Len(own_objects) + 1]
    /\ UNCHANGED <<chatVars, fnVars, regVars, pairVars, legacyVars, uc_table, cm_table,
                   sessions, responses, own_calls, own_clock>>

\* line 140, the assignment to the registry entry of (user, id)
OwnAssign(s) ==
    /\ own_threads[s].pc = "assign"
    /\ sessions' = [sessions EXCEPT ![<<s[1], own_threads[s].id>>] =
                       [registered |-> TRUE, object |-> own_threads[s].object]]
    /\ own_threads' = [own_threads EXCEPT ![s].pc = "return"]
    /\ UNCHANGED <<chatVars, fnVars, regVars, pairVars, legacyVars, uc_table, cm_table,
                   own_objects, responses, own_calls, own_clock>>

\* line 148: the registry entry of (user, id), as it is now, is returned;
\* the caller goes on to Conversation.get_history
OwnReturn(s) ==
    /\ own_threads[s].pc = "return"
    /\ own_threads' = [own_threads EXCEPT
                          ![s].pc = "get_history",
                          ![s].object = sessions[<<s[1], own_threads[s].id>>].object]
    /\ UNCHANGED <<chatVars, fnVars, regVars, pairVars, legacyVars, uc_table, cm_table,
                   sessions, own_objects, responses, own_calls, own_clock>>

\* the history route, line 199: get_history reads the rows of the id,
\* ordered by timestamp; the route goes on to answer with them
OwnHistoryRead(u) ==
    /\ own_threads[<<u, "history">>].pc = "get_history"
    /\ LET c == own_threads[<<u, "history">>].id
           rows == get_conversation_messages(cm_table[c])
       IN own_threads' = [own_threads EXCEPT
              ![<<u, "history">>].pc = "answer",
              ![<<u, "history">>].status = "200",
              ![<<u, "history">>].rows =
                  [i \in 1..Len(rows) |-> <<rows[i].role, rows[i].by>>]]
    /\ UNCHANGED <<chatVars, fnVars, regVars, pairVars, legacyVars, uc_table, cm_table,
                   sessions, own_objects, responses, own_calls, own_clock>>

\* a route other than the chat route returns the answer it has decided on:
\* the history route its 404 (line 196), its 200 with the rows read (202-205)
\* or its 500 (207-209), the title route and the route that creates a
\* conversation their 200 (lines 240 and 119)
OwnAnswer(s) ==
    /\ own_threads[s].pc = "answer"
    /\ responses' = Append(responses,
           [route |-> s[2], user |-> s[1], id |-> own_threads[s].id,
            status |-> own_threads[s].status, rows |-> own_threads[s].rows])
    /\ own_threads' = [own_threads EXCEPT ![s] = OwnIdleThread]
    /\ UNCHANGED <<chatVars, fnVars, regVars, pairVars, legacyVars, uc_table, cm_table,
                   sessions, own_objects, own_calls, own_clock>>

\* stream_response line 177: get_history reads the rows of the id, the
\* message is a first one when there are none
OwnChatHistory(u) ==
    /\ own_threads[<<u, "chat">>].pc = "get_history"
    /\ own_threads' = [own_threads EXCEPT
           ![<<u, "chat">>].pc = "user_msg",
           ![<<u, "chat">>].is_first = (cm_table[own_threads[<<u, "chat">>].id] = <<>>)]
    /\ UNCHANGED <<chatVars, fnVars, regVars, pairVars, legacyVars, uc_table, cm_table,
                   sessions, own_objects, responses, own_calls, own_clock>>

\* lines 179-180: the user turn is made, with the time of now, and appended
\* to the session.  The thread goes on to save_message.
OwnChatUserMsg(u) ==
    /\ own_threads[<<u, "chat">>].pc = "user_msg"
    /\ LET th == own_threads[<<u, "chat">>]
           user == [role |-> "user", content |-> augment(<<"hi">>, <<"ctx">>)]
       IN /\ own_threads' = [own_threads EXCEPT
                                ![<<u, "chat">>].pc = "save_user",
                                ![<<u, "chat">>].user_ts = own_clock]
          /\ own_clock' = own_clock + 1
          /\ own_objects' = [own_objects EXCEPT ![th.object].messages = Append(@, user)]
    /\ UNCHANGED <<chatVars, fnVars, regVars, pairVars, legacyVars, uc_table, cm_table,
                   sessions, responses, own_calls>>

\* line 181 and send_message up to the first token frame (Conversation.py
\* 60-79): the user row is saved, send_message appends the user turn once
\* more, the token frame "a" is handed to the server
OwnChatSaveUser(u) ==
    /\ own_threads[<<u, "chat">>].pc = "save_user"
    /\ LET th == own_threads[<<u, "chat">>]
           text == augment(<<"hi">>, <<"ctx">>)
       IN /\ cm_table' = [cm_table EXCEPT ![th.id] = Append(@, OwnRow("user", text, u, th.user_ts))]
          /\ own_objects' = [own_objects EXCEPT ![th.object].messages =
                                 Append(@, [role |-> "user", content |-> text])]
    /\ own_threads' = [own_threads EXCEPT ![<<u, "chat">>].pc = "token_yielded"]
    /\ UNCHANGED <<chatVars, fnVars, regVars, pairVars, legacyVars, uc_table, sessions,
                   responses, own_calls, own_clock>>

\* the server asks for the next frame: the generation has ended,
\* send_message appends the assistant turn (Conversation.py 82-84); the
\* thread goes on to save_message
OwnChatResume(u) ==
    /\ own_threads[<<u, "chat">>].pc = "token_yielded"
    /\ own_objects' = [own_objects EXCEPT ![own_threads[<<u, "chat">>].object].messages =
                          Append(@, [role |-> "assistant", content |-> <<"a">>])]
    /\ own_threads' = [own_threads EXCEPT ![<<u, "chat">>].pc = "save_assistant"]
    /\ UNCHANGED <<chatVars, fnVars, regVars, pairVars, legacyVars, uc_table, cm_table,
                   sessions, responses, own_calls, own_clock>>

\* line 189: the assistant row is saved, with the timestamp of the user
\* turn; a first message goes on to write its title, any other hands the
\* final frame to the server (line 196)
OwnChatSaveAssistant(u) ==
    /\ own_threads[<<u, "chat">>].pc = "save_assistant"
    /\ LET th == own_threads[<<u, "chat">>]
       IN /\ cm_table' = [cm_table EXCEPT ![th.id] =
                             Append(@, OwnRow("assistant", <<"a">>, u, th.user_ts))]
          /\ own_threads' = [own_threads EXCEPT ![<<u, "chat">>].pc =
                                IF th.is_first THEN "update_title" ELSE "final_yielded"]
    /\ UNCHANGED <<chatVars, fnVars, regVars, pairVars, legacyVars, uc_table, sessions,
                   own_objects, responses, own_calls, own_clock>>

\* lines 191-194: the title is generated and written over the title of the
\* record of the id; the title frame is handed to the server
OwnChatTitle(u) ==
    /\ own_threads[<<u, "chat">>].pc = "update_title"
    /\ LET c == own_threads[<<u, "chat">>].id
       IN uc_table' = IF uc_table[c].present
                      THEN [uc_table EXCEPT ![c].title = TextTitle(<<"Greeting">>)]
                      ELSE uc_table
    /\ own_threads' = [own_threads EXCEPT ![<<u, "chat">>].pc = "title_yielded"]
    /\ UNCHANGED <<chatVars, fnVars, regVars, pairVars, legacyVars, cm_table, sessions,
                   own_objects, responses, own_calls, own_clock>>

\* line 196: the server asks for the frame after the title frame and is
\* handed the final frame
OwnChatFinalFrame(u) ==
    /\ own_threads[<<u, "chat">>].pc = "title_yielded"
    /\ own_threads' = [own_threads EXCEPT ![<<u, "chat">>].pc = "final_yielded"]
    /\ UNCHANGED <<chatVars, fnVars, regVars, pairVars, legacyVars, uc_table, cm_table,
                   sessions, own_objects, responses, own_calls, own_clock>>

\* the server asks for the frame after the final frame (line 196) or after
\* the error frame (line 200): the stream of the chat request of user u
\* ends
OwnChatEnds(u) ==
    /\ own_threads[<<u, "chat">>].pc \in {"final_yielded", "error_yielded"}
    /\ responses' = Append(responses,
           [route |-> "chat", user |-> u, id |-> own_threads[<<u, "chat">>].id,
            status |-> IF own_threads[<<u, "chat">>].pc = "final_yielded"
                       THEN "streamed" ELSE "error",
            rows |-> <<>>])
    /\ own_threads' = [own_threads EXCEPT ![<<u, "chat">>] = OwnIdleThread]
    /\ UNCHANGED <<chatVars, fnVars, regVars, pairVars, legacyVars, uc_table, cm_table,
                   sessions, own_objects, own_calls, own_clock>>

\* Routes.create_conversation by user u, lines 115-118: a new uuid4 id,
\* which nothing refers to yet, recorded with the posted title.  The route
\* goes on to answer (line 119).
OwnCreate(u, c, title) ==
    /\ own_threads[<<u, "create">>].pc = "idle"
    /\ own_calls < MaxOwnCalls
    /\ ~uc_table[c].present
    /\ cm_table[c] = <<>>
    /\ \A o \in Users : ~sessions[<<o, c>>].registered
    /\ \A s \in OwnSlots : own_threads[s].pc = "idle" \/ own_threads[s].id # c
    /\ own_calls' = own_calls + 1
    /\ uc_table' = [uc_table EXCEPT ![c] =
                       [present |-> TRUE, user_id |-> u, title |-> title]]
    /\ own_threads' = [own_threads EXCEPT ![<<u, "create">>] =
           [OwnIdleThread EXCEPT !.pc = "answer", !.id = c, !.status = "200"]]
    /\ UNCHANGED <<chatVars, fnVars, regVars, pairVars, legacyVars, cm_table, sessions,
                   own_objects, responses,
                   own_clock>>

\* Routes.generate_conversation_title by user u for id c (lines 231-239):
\* the generated title is written over the title of the record of c, with
\* no test of who owns it; without a record the UPDATE changes nothing.
\* The route goes on to answer (line 240).
OwnGenerateTitle(u, c, title) ==
    /\ own_threads[<<u, "title">>].pc = "idle"
    /\ own_calls < MaxOwnCalls
    /\ own_calls' = own_calls + 1
    /\ uc_table' = IF uc_table[c].present
                   THEN [uc_table EXCEPT ![c].title = TextTitle(title)]
                   ELSE uc_table
    /\ own_threads' = [own_threads EXCEPT ![<<u, "title">>] =
           [OwnIdleThread EXCEPT !.pc = "answer", !.id = c, !.status = "200"]]
    /\ UNCHANGED <<chatVars, fnVars, regVars, pairVars, legacyVars, cm_table, sessions,
                   own_objects, responses,
                   own_clock>>

NextOwn ==
    \/ \E u \in Users, c \in ConversationIds :
        \/ OwnChat(u, c)
        \/ OwnHistory(u, c)
        \/ \E title \in PostedTitles : OwnCreate(u, c, title)
        \/ \E title \in RouteTitles : OwnGenerateTitle(u, c, title)
    \/ \E s \in OwnSlots :
        \/ OwnGetTitle(s)
        \/ OwnAddConversation(s)
        \/ OwnConstruct(s)
        \/ OwnAssign(s)
        \/ OwnReturn(s)
        \/ OwnAnswer(s)
    \/ \E u \in Users :
        \/ OwnHistoryRead(u)
        \/ OwnChatHistory(u)
        \/ OwnChatUserMsg(u)
        \/ OwnChatSaveUser(u)
        \/ OwnChatResume(u)
        \/ OwnChatSaveAssistant(u)
        \/ OwnChatTitle(u)
        \/ OwnChatFinalFrame(u)
        \/ OwnChatEnds(u)

SpecOwn == InitOwn /\ [][NextOwn]_vars

(* --------------------------- the in-memory app -------------------------- *)
\* src/backend/app.py: requests on one conversation id, each served by a
\* thread of the server; nothing keeps two of them from running at once.
\* The relay of src/backend/model.py is the relay of ChatModel.py; here a
\* fragment enters when the consumer loop of run_generation receives it.
\* Lists are objects: legacy_lists holds them, and conversations[id] and the
\* local history of a request refer to one by its number.  Entries carry in
\* field req the number of the request that added them.
\* the fragments the engine may emit: a letter or blank text
LegacyFragments == {<<"a">>, <<" ">>}

LegacyEntry(role, content, req) == [role |-> role, content |-> content, req |-> req]

\* app.py lines 71-72
legacy_trim(history) ==
    IF Len(history) > MAX_HISTORY * 2 THEN SliceLast(history, MAX_HISTORY * 2)
    ELSE history

\* the app after start, or after MAX_HISTORY - 1 requests, served one after
\* the other, that each sent "hi" and received "a" (they are numbered up to
\* 0); these leave room for one more exchange before the history is cut
InitLegacy ==
    /\ ChatIdle
    /\ FnIdle
    /\ RegIdle
    /\ PairIdle
    /\ OwnIdle
    /\ legacy_threads = [t \in Threads |-> LegacyIdleThread]
    /\ legacy_requests = 0
    /\ \E n \in {0, MAX_HISTORY - 1} :
          LET earlier == [i \in 1..(2 * n) |->
                            IF i % 2 = 1
                            THEN LegacyEntry("user", <<"hi">>, (i + 1) \div 2 - n)
                            ELSE LegacyEntry("assistant", <<"a">>, i \div 2 - n)]
          IN /\ legacy_conversations = IF n = 0 THEN 0 ELSE 1
             /\ legacy_lists = IF n = 0 THEN <<>> ELSE <<earlier>>
             /\ legacy_log = earlier

\* a list that neither conversations[id] nor a request that can still run
\* refers to is gone
LegacyCollect(lists, conv, ths) ==
    [i \in DOMAIN lists |->
        IF i = conv \/ \E t \in Threads :
                          /\ ths[t].history = i
                          /\ ths[t].pc \in {"streaming", "yielded", "append_assistant",
                                            "trim", "store"}
        THEN lists[i] ELSE <<>>]

\* app.py chat (lines 93-118) and the start of stream_response /
\* run_generation (lines 44-61, 79-85) in thread t: an empty message is
\* refused with an error frame; else the history is read, which is the list
\* conversations[id] refers to or, without the key, a new empty list
\* (line 46), and the generation is started.  The thread of a request that
\* hangs never runs again.
LegacyChat(t, m) ==
    /\ legacy_threads[t].pc \in {"idle", "rejected", "finished", "cancelled", "stuck"}
    /\ legacy_requests < MaxLegacyRequests
    /\ LET new == legacy_conversations = 0
           lists == IF m # <<>> /\ new THEN Append(legacy_lists, <<>>) ELSE legacy_lists
           th == IF m = <<>>
                 THEN [LegacyIdleThread EXCEPT
                          !.pc = "rejected",
                          !.frames = <<ErrorFrame(<<"Message is required">>)>>]
                 ELSE [LegacyIdleThread EXCEPT
                          !.pc = "streaming", !.message = m,
                          !.req = legacy_requests + 1,
                          !.history = IF new THEN Len(legacy_lists) + 1
                                      ELSE legacy_conversations]
       IN /\ legacy_threads' = [legacy_threads EXCEPT ![t] = th]
          /\ legacy_lists' = LegacyCollect(lists, legacy_conversations, legacy_threads')
    /\ legacy_requests' = IF m = <<>> THEN legacy_requests ELSE legacy_requests + 1
    /\ UNCHANGED <<chatVars, fnVars, regVars, pairVars, ownVars, legacy_conversations,
                   legacy_log>>

\* run_generation lines 61-64: the next fragment; a non-blank one is
\* accumulated and yielded as a token frame
LegacyToken(t, frag) ==
    /\ legacy_threads[t].pc = "streaming"
    /\ legacy_threads[t].tokens < MaxLegacyTokens
    /\ legacy_threads' = [legacy_threads EXCEPT ![t] =
          IF Strip(frag) # <<>>
          THEN [@ EXCEPT !.tokens = @ + 1, !.response = @ \o frag,
                         !.frames = Append(@, TokenFrame(frag)), !.pc = "yielded"]
          ELSE [@ EXCEPT !.tokens = @ + 1]]
    /\ UNCHANGED <<chatVars, fnVars, regVars, pairVars, ownVars, legacy_conversations,
                   legacy_lists, legacy_requests, legacy_log>>

\* stream_response line 85: the next frame is asked for
LegacyNext(t) ==
    /\ legacy_threads[t].pc = "yielded"
    /\ legacy_threads' = [legacy_threads EXCEPT ![t].pc = "streaming"]
    /\ UNCHANGED <<chatVars, fnVars, regVars, pairVars, ownVars, legacy_conversations,
                   legacy_lists, legacy_requests, legacy_log>>

\* the client goes away: stream_response is closed at its yield (line 86),
\* the finally clause closes the loop (89-90), run_generation is not resumed
LegacyDisconnect(t) ==
    /\ legacy_threads[t].pc = "yielded"
    /\ legacy_threads' = [legacy_threads EXCEPT ![t].pc = "cancelled"]
    /\ legacy_lists' = LegacyCollect(legacy_lists, legacy_conversations, legacy_threads')
    /\ UNCHANGED <<chatVars, fnVars, regVars, pairVars, ownVars, legacy_conversations,
                   legacy_requests, legacy_log>>

\* generate raises in its thread: no sentinel comes, the consumer loop waits
LegacyEngineFail(t) ==
    /\ legacy_threads[t].pc = "streaming"
    /\ legacy_threads' = [legacy_threads EXCEPT ![t].pc = "stuck"]
    /\ legacy_lists' = LegacyCollect(legacy_lists, legacy_conversations, legacy_threads')
    /\ UNCHANGED <<chatVars, fnVars, regVars, pairVars, ownVars, legacy_conversations,
                   legacy_requests, legacy_log>>

\* the generation ends; run_generation line 67: the user entry is appended
\* to the list the request read at its start
LegacyAppendUser(t) ==
    /\ legacy_threads[t].pc = "streaming"
    /\ LET th == legacy_threads[t]
       IN legacy_lists' = [legacy_lists EXCEPT ![th.history] =
                              Append(@, LegacyEntry("user", th.message, th.req))]
    /\ legacy_threads' = [legacy_threads EXCEPT ![t].pc = "append_assistant"]
    /\ UNCHANGED <<chatVars, fnVars, regVars, pairVars, ownVars, legacy_conversations,
                   legacy_requests, legacy_log>>

\* line 68: the assistant entry is appended to the same list
LegacyAppendAssistant(t) ==
    /\ legacy_threads[t].pc = "append_assistant"
    /\ LET th == legacy_threads[t]
       IN legacy_lists' = [legacy_lists EXCEPT ![th.history] =
                              Append(@, LegacyEntry("assistant", th.response, th.req))]
    /\ legacy_threads' = [legacy_threads EXCEPT ![t].pc = "trim"]
    /\ UNCHANGED <<chatVars, fnVars, regVars, pairVars, ownVars, legacy_conversations,
                   legacy_requests, legacy_log>>

\* lines 71-72: a list of more than 2 * MAX_HISTORY entries is left for a
\* new list of its last entries.  (The list only grows between the test
\* and the slice, so the two are one step.)
LegacyTrim(t) ==
    /\ legacy_threads[t].pc = "trim"
    /\ LET th == legacy_threads[t]
           old == legacy_lists[th.history]
           cut == Len(old) > MAX_HISTORY * 2
           lists == IF cut THEN Append(legacy_lists, legacy_trim(old)) ELSE legacy_lists
       IN /\ legacy_threads' = [legacy_threads EXCEPT
                                   ![t].pc = "store",
                                   ![t].history = IF cut THEN Len(legacy_lists) + 1
                                                  ELSE th.history]
          /\ legacy_lists' = LegacyCollect(lists, legacy_conversations, legacy_threads')
    /\ UNCHANGED <<chatVars, fnVars, regVars, pairVars, ownVars, legacy_conversations,
                   legacy_requests, legacy_log>>

\* lines 74-77: conversations[id] is made to refer to the list of the
\* request, and the final frame is yielded
LegacyStore(t) ==
    /\ legacy_threads[t].pc = "store"
    /\ LET th == legacy_threads[t]
       IN /\ legacy_conversations' = th.history
          /\ legacy_log' = legacy_log \o <<LegacyEntry("user", th.message, th.req),
                                           LegacyEntry("assistant", th.response, th.req)>>
          /\ legacy_threads' = [legacy_threads EXCEPT
                                   ![t].pc = "final_yielded",
                                   ![t].frames = Append(@, FinalFrame)]
          /\ legacy_lists' = LegacyCollect(legacy_lists, th.history, legacy_threads')
    /\ UNCHANGED <<chatVars, fnVars, regVars, pairVars, ownVars, legacy_requests>>

\* after the final frame: StopAsyncIteration or a closed generator, and the
\* loop is closed (lines 87-90)
LegacyFinish(t) ==
    /\ legacy_threads[t].pc = "final_yielded"
    /\ legacy_threads' = [legacy_threads EXCEPT ![t].pc = "finished"]
    /\ UNCHANGED <<chatVars, fnVars, regVars, pairVars, ownVars, legacy_conversations,
                   legacy_lists, legacy_requests, legacy_log>>

NextLegacy ==
    \E t \in Threads :
        \/ \E m \in ClientMessages : LegacyChat(t, m)
        \/ \E frag \in LegacyFragments : LegacyToken(t, frag)
        \/ LegacyNext(t)
        \/ LegacyDisconnect(t)
        \/ LegacyEngineFail(t)
        \/ LegacyAppendUser(t)
        \/ LegacyAppendAssistant(t)
        \/ LegacyTrim(t)
        \/ LegacyStore(t)
        \/ LegacyFinish(t)

SpecLegacy == InitLegacy /\ [][NextLegacy]_vars

(* ------------------ the pure functions of Conversation ------------------ *)
\* turn lists of length n: turn i has either role and the content Letters[i]
FnLists(n) ==
    { [i \in 1..n |-> Message(r[i], <<Letters[i]>>, i, 0)] :
        r \in [1..n -> {"user", "assistant"}] }

InitFn ==
    /\ fn_in \in UNION {FnLists(n) : n \in 0..MaxFnLen}
    /\ fn_max \in 0..MaxFnMax
    /\ fn_sys \in {<<>>, system_prompt}
    /\ fn_out = <<>>
    /\ fn_pc = "input"
    /\ db_conversation = NoRecord
    /\ db_messages = <<>>
    /\ registered = FALSE
    /\ messages = <<>>
    /\ clock = 1
    /\ reqNo = 0
    /\ sync_pc = "none"
    /\ ctl_pc = "none"
    /\ message = <<>>
    /\ client_message = <<>>
    /\ is_first_message = FALSE
    /\ user_ts = 0
    /\ current_response = <<>>
    /\ sm_response = <<>>
    /\ prompt = <<>>
    /\ frames = <<>>
    /\ engine = "idle"
    /\ produced = <<>>
    /\ fwd_pc = "idle"
    /\ fwd_token = NoneItem
    /\ loop_state = "none"
    /\ ready = <<>>
    /\ todo = 0
    /\ queue = <<>>
    /\ getter = FALSE
    /\ consumed = <<>>
    /\ thread_joined = FALSE
    /\ faults = 0
    /\ pre_len = 0
    /\ title_log = <<>>
    /\ cancelled_early = {}
    /\ completed = {}
    /\ enq_stopped = FALSE
    /\ yielded = 0
    /\ SideIdle

\* Conversation._trim_history applied to the session (messages, max_history)
TrimHistory ==
    /\ fn_pc = "input"
    /\ fn_out' = trim_history(fn_in, fn_max)
    /\ fn_pc' = "trimmed"
    /\ UNCHANGED <<storeVars, sessionVars, requestVars, relayVars, historyVars,
                   fn_in, fn_max, fn_sys, sideVars>>

\* Conversation._prepare_messages_for_model applied to the session
PrepareMessagesForModel ==
    /\ fn_pc = "input"
    /\ fn_out' = prepare_messages_for_model(fn_in, fn_max, fn_sys)
    /\ fn_pc' = "prepared"
    /\ UNCHANGED <<storeVars, sessionVars, requestVars, relayVars, historyVars,
                   fn_in, fn_max, fn_sys, sideVars>>

\* CustomHuggingFaceChatModel._astream lines 75-79 applied to the prompt that
\* send_message hands over (Conversation.py line 75)
AstreamChatHistory ==
    /\ fn_pc = "input"
    /\ fn_out' = chat_history_of(prepare_messages_for_model(fn_in, fn_max, fn_sys))
    /\ fn_pc' = "formatted"
    /\ UNCHANGED <<storeVars, sessionVars, requestVars, relayVars, historyVars,
                   fn_in, fn_max, fn_sys, sideVars>>

NextFn == TrimHistory \/ PrepareMessagesForModel \/ AstreamChatHistory

SpecFn == InitFn /\ [][NextFn]_vars

(* ------------------------------ claims --------------------------------- *)
IsAssistantOf(m, r) == m.role = "assistant" /\ m.req = r

LastN(seq, n) ==
    IF n >= Len(seq) THEN seq ELSE SubSeq(seq, Len(seq) - n + 1, Len(seq))

ProducedItems == [i \in 1..Len(produced) |-> TokenItem(produced[i])]

\* C1: the consumer loop of _astream dequeues the fragments the engine
\* yielded in production order, each exactly once (what it has dequeued is at
\* every moment a prefix of what was produced), and the end sentinel only
\* after all of them, under every interleaving of the forwarding thread, the
\* stepped event loop and the consumer.
C1_RelayOrder ==
    /\ Len(consumed) <= Len(produced) + 1
    /\ \A i \in 1..Len(consumed) :
         /\ i <= Len(produced) => consumed[i] = ProducedItems[i]
         /\ i = Len(produced) + 1 => consumed[i] = NoneItem
         /\ consumed[i] = NoneItem => (i = Len(produced) + 1 /\ engine = "done")

\* all fragments and then the sentinel were dequeued, two of them different,
\* and one was scheduled while the loop was stopped between two frames
C1_Witness ==
    /\ Len(produced) >= 2
    /\ produced[1] # produced[2]
    /\ consumed = ProducedItems \o <<NoneItem>>
    /\ enq_stopped

\* C2: a request whose stream was closed by the client before the terminal
\* event was consumed never gets an assistant turn, neither in the session's
\* memory nor in the store, in that request or later.
C2_NoCommitAfterCancel ==
    \A r \in cancelled_early :
        /\ \A i \in 1..Len(messages) : ~IsAssistantOf(messages[i], r)
        /\ \A i \in 1..Len(db_messages) : ~IsAssistantOf(db_messages[i], r)

\* a request was cancelled with a non-empty partial answer and a later
\* request on the same session has completed
C2_Witness ==
    /\ \E r \in cancelled_early : r < reqNo
    /\ reqNo \in completed
    /\ \E i \in 1..Len(db_messages) : IsAssistantOf(db_messages[i], reqNo)
    /\ registered
    /\ \E i \in 1..Len(messages) : messages[i].req \in cancelled_early

\* C3: when the engine has failed and everything it yielded has been
\* delivered, the request has received a terminal failure: its last frame
\* carries an error and continuing = false, after exactly the token frames.
C3_FailureReported ==
    RequestStuck =>
        /\ frames # <<>>
        /\ frames[Len(frames)].kind = "error"
        /\ ~frames[Len(frames)].continuing

\* C4: in the frames of one request, token and title frames carry
\* continuing = true and a frame with continuing = false is the last one.
C4_SingleTerminalFrame ==
    \A i \in 1..Len(frames) :
        /\ frames[i].kind \in {"token", "title"} => frames[i].continuing
        /\ ~frames[i].continuing => i = Len(frames)

\* a stream with a token frame, a title frame and the final frame
C4_Witness ==
    /\ Len(frames) >= 3
    /\ frames[1].kind = "token"
    /\ frames[Len(frames) - 1].kind = "title"
    /\ frames[Len(frames)] = FinalFrame
    /\ sync_pc = "ended"

\* C5: a title is generated at most once per conversation, and only in an
\* exchange before which the stored history was empty.
C5_TitleOnce ==
    /\ Len(title_log) <= 1
    /\ \A i \in 1..Len(title_log) : title_log[i][2] = 0

\* C6: once the assistant turn of the current request has been committed,
\* the session's in-memory turn list has at most 2 * max_history turns.
C6_TrimmedAfterCommit ==
    (registered /\ reqNo \in completed) => Len(messages) <= 2 * max_history

\* C7: after _trim_history the list has at most 2 * max_history turns and is
\* the suffix of that length of the original list.
C7_TrimIsBoundedSuffix ==
    fn_pc = "trimmed" =>
        /\ Len(fn_out) <= 2 * fn_max
        /\ fn_out = LastN(fn_in, Len(fn_out))

\* C8: _prepare_messages_for_model returns the system prompt first exactly
\* when it is non-empty, followed by at most 2 * max_history entries: the
\* most recent turns in order with their roles.
C8_WindowedPrompt ==
    fn_pc = "prepared" =>
        LET hasSys == fn_sys # <<>>
            body == IF hasSys THEN Tail(fn_out) ELSE fn_out
            recent == LastN(fn_in, 2 * fn_max)
        IN /\ hasSys => Head(fn_out) = HumanMessage(<<"System: ">> \o fn_sys)
           /\ Len(body) <= 2 * fn_max
           /\ Len(body) = Len(recent)
           /\ \A i \in 1..Len(body) :
                /\ body[i].content = recent[i].content
                /\ body[i].type = (IF recent[i].role = "user" THEN "human" ELSE "ai")

\* the turns of the conversation as persisted, as prompt entries
StoredTurns ==
    [i \in 1..Len(db_messages) |->
        IF db_messages[i].role = "user" THEN HumanMessage(db_messages[i].content)
        ELSE AIMessage(db_messages[i].content)]

\* C9: after more than max_history completed exchanges, the prompt built for
\* the next generation is the system prompt followed by exactly the last
\* 2 * max_history turns of the conversation as persisted (counting the new
\* user turn either inside the window or after it), while get_history
\* returns every stored turn.
C9_PromptIsLastPairs ==
    (ctl_pc = "tokens" /\ reqNo = 1 /\ faults = 0) =>
        LET n == Len(StoredTurns)
            before == SubSeq(StoredTurns, 1, n - 1)
            body == Tail(prompt)
        IN /\ Head(prompt) = HumanMessage(<<"System: ">> \o system_prompt)
           /\ \/ body = LastN(StoredTurns, 2 * max_history)
              \/ body = LastN(before, 2 * max_history) \o <<StoredTurns[n]>>
           /\ Len(get_history(db_messages, TRUE)) = 2 * WarmExchanges + 1

SameTurn(a, row) == a.role = row.role /\ a.content = row.content /\ a.req = row.req

\* C10: the display history and a reloaded session both list the stored
\* turns in the order they were persisted: exchanges in the order they
\* happened, each user turn before its assistant reply.
C10_RoundTripOrder ==
    LET h == get_history(db_messages, TRUE)
        l == load_messages(db_messages, TRUE)
    IN /\ Len(h) = Len(db_messages)
       /\ Len(l) = Len(db_messages)
       /\ \A i \in 1..Len(db_messages) :
            /\ h[i].text = db_messages[i].content
            /\ h[i].isUser = (db_messages[i].role = "user")
            /\ h[i].req = db_messages[i].req
            /\ SameTurn(l[i], db_messages[i])
       /\ \A i, j \in 1..Len(h) :
            i < j => /\ h[i].req <= h[j].req
                     /\ (h[i].req = h[j].req => (h[i].isUser /\ ~h[j].isUser))

\* after one completed exchange and a restart, the second request has
\* reloaded the session from the store
C10_Witness ==
    /\ reqNo = 2
    /\ ctl_pc = "got_conversation"
    /\ Len(db_messages) = 2
    /\ db_messages[2].role = "assistant"
    /\ messages = load_messages(db_messages, TRUE)
    /\ Len(messages) = 2

\* C11: a chat request with a missing or empty message gets exactly one
\* frame, an error with continuing = false, and has no side effect: the
\* registry, the session, the conversation record and the stored turns are
\* unchanged, stream_response is not entered, no message is passed on to
\* retrieval or generation and no thread is started.  The step is the one in
\* which the chat route answers; what other routes do afterwards is theirs.
C11_EmptyRejected ==
    [][(sync_pc # "rejected" /\ sync_pc' = "rejected") =>
          /\ Len(frames') = 1
          /\ frames'[1].kind = "error"
          /\ ~frames'[1].continuing
          /\ registered' = registered
          /\ messages' = messages
          /\ db_conversation' = db_conversation
          /\ db_messages' = db_messages
          /\ ctl_pc' = "none"
          /\ message' = <<>>
          /\ engine' = "idle"
          /\ fwd_pc' = "idle"]_vars

\* an empty message was rejected on a fresh conversation: nothing exists
C11_Witness ==
    /\ sync_pc = "rejected"
    /\ client_message = <<>>
    /\ ~registered
    /\ db_conversation = NoRecord
    /\ db_messages = <<>>

\* the text of the token frames of a frame sequence, concatenated
RECURSIVE TokenText(_)
TokenText(fs) ==
    IF fs = <<>> THEN <<>>
    ELSE (IF Head(fs).kind = "token" THEN Head(fs).text ELSE <<>>) \o TokenText(Tail(fs))

AssistantRowOf(r) ==
    {i \in 1..Len(db_messages) : IsAssistantOf(db_messages[i], r)}

\* The frames of the current request are in the order of a completion: the
\* token frames come first; a title or final frame comes only after the
\* assistant turn, holding the text of the token frames, was persisted; a
\* title frame comes only in the conversation's first exchange (no stored
\* turn before it), after the title was generated; the final frame is last
\* and, in a first exchange, directly follows the title frame.
CompletionSequence ==
    \A i \in 1..Len(frames) :
        /\ frames[i].kind = "token" =>
              \A j \in 1..i : frames[j].kind = "token"
        /\ frames[i].kind \in {"title", "final"} =>
              /\ AssistantRowOf(reqNo) # {}
              /\ \A k \in AssistantRowOf(reqNo) :
                    db_messages[k].content = TokenText(frames)
        /\ frames[i].kind = "title" =>
              /\ pre_len = 0
              /\ \E n \in 1..Len(title_log) : title_log[n][1] = reqNo
        /\ frames[i].kind = "final" =>
              /\ i = Len(frames)
              /\ pre_len = 0 => (i > 1 /\ frames[i - 1].kind = "title")

\* C12: after every step the frames of the request are in the order of a
\* completion (token frames, then the assistant turn persisted, then, only
\* in the conversation's first exchange, the title generated and the title
\* frame, then the final frame), and the step that emits a title frame
\* leaves that title recorded in the store.
C12_CompletionSequence ==
    [][/\ CompletionSequence'
       /\ (Len(frames') = Len(frames) + 1 /\ frames'[Len(frames')].kind = "title")
             => db_conversation' = Record(TextTitle(frames'[Len(frames')].text))]_vars

\* C13: when every request so far on the fresh conversation has completed
\* and no store operation has failed, the store holds exactly two turns per
\* exchange: the user turn and then the assistant turn of each exchange, in
\* the order of the exchanges.
C13_TwoTurnsPerExchange ==
    (faults = 0 /\ completed = 1..reqNo) =>
        /\ Len(db_messages) = 2 * reqNo
        /\ \A k \in 1..reqNo :
              /\ db_messages[2 * k - 1].role = "user"
              /\ db_messages[2 * k - 1].req = k
              /\ IsAssistantOf(db_messages[2 * k], k)

\* two exchanges have completed without any failure
C13_Witness ==
    /\ reqNo = 2
    /\ completed = {1, 2}
    /\ faults = 0
    /\ cancelled_early = {}
    /\ Len(db_messages) = 4

\* C14: whenever the generate thread of the current request has been
\* started or a token frame has been emitted, the user turn of that request
\* is in the store; and a stored user turn stays in the store at every step,
\* however the request ends.
C14_UserTurnFirst ==
    [][/\ (\/ engine' # "idle"
           \/ \E i \in 1..Len(frames') : frames'[i].kind = "token") =>
              \E i \in 1..Len(db_messages') :
                 /\ db_messages'[i].role = "user"
                 /\ db_messages'[i].req = reqNo'
       /\ \A i \in 1..Len(db_messages) :
              db_messages[i].role = "user" =>
                 /\ i <= Len(db_messages')
                 /\ db_messages'[i] = db_messages[i]]_vars

\* the client went away after a token frame: the user turn is stored, the
\* assistant turn is not
C14_Witness ==
    /\ sync_pc = "cancelled"
    /\ reqNo \in cancelled_early
    /\ \E i \in 1..Len(frames) : frames[i].kind = "token"
    /\ \E i \in 1..Len(db_messages) :
          db_messages[i].role = "user" /\ db_messages[i].req = reqNo
    /\ AssistantRowOf(reqNo) = {}

\* C15: a failed store write (saving a turn or the title) is never reported
\* to the client: no frame of a request is an error frame for it.
C15_WriteFailureRecovered ==
    \A i \in 1..Len(frames) :
        frames[i].kind = "error" =>
            frames[i].text \notin {<<"save_message failed">>,
                                   <<"update_conversation_title failed">>}

\* C16: constructing the session never raises because of the load: when
\* get_conversation registers a new session without a failed store read, its
\* in-memory turns are the stored turns in timestamp order; with a failed
\* read they are empty; an error out of get_conversation comes from the
\* title lookup or the record insert only.  When get_history's read fails,
\* stream_response sees an empty history.
C16_LoadNeverRaises ==
    [][/\ (ctl_pc = "start" /\ ~registered /\ registered') =>
             IF faults' = faults
             THEN /\ Len(messages') = Len(db_messages)
                  /\ \A k \in 1..Len(db_messages) :
                        \E i \in 1..Len(messages') :
                           /\ SameTurn(messages'[i], db_messages[k])
                           /\ IsoFormat(messages'[i].timestamp) = db_messages[k].timestamp
                  /\ \A i, j \in 1..Len(messages') :
                        i < j => ~TextLess(IsoFormat(messages'[j].timestamp),
                                           IsoFormat(messages'[i].timestamp))
             ELSE messages' = <<>>
       /\ (ctl_pc = "start" /\ ctl_pc' = "error_yielded") =>
             frames'[Len(frames')].text \in {<<"get_conversation_title failed">>,
                                             <<"add_conversation failed">>}
       /\ (ctl_pc = "got_conversation" /\ ctl_pc' = "tokens") =>
             is_first_message' = (faults' > faults \/ db_messages = <<>>)]_vars

\* a session was registered over a store with turns while the read failed:
\* its history is empty and the request goes on
C16_Witness ==
    /\ ctl_pc = "got_conversation"
    /\ registered
    /\ messages = <<>>
    /\ db_messages # <<>>
    /\ faults = 1

\* the items of the handles of kind k in the loop's ready queue, in order
RECURSIVE HandleItems(_, _)
HandleItems(hs, k) ==
    IF hs = <<>> THEN <<>>
    ELSE (IF Head(hs).h = k THEN <<Head(hs).item>> ELSE <<>>)
         \o HandleItems(Tail(hs), k)

\* everything the forwarding thread has enqueued on the relay of the current
\* request, in the order it was enqueued: dequeued, queued, being put,
\* scheduled
Enqueued ==
    consumed \o queue \o HandleItems(ready, "put") \o HandleItems(ready, "cb")

\* C17: when the forwarding thread of a request whose loop is still open
\* has ended, or waits on a generate thread that has failed, it has enqueued
\* exactly one terminal event, and that event is the last item it enqueued.
C17_OneTerminalEvent ==
    (/\ fwd_pc = "exited" \/ (fwd_pc = "next" /\ engine = "failed")
     /\ loop_state \in {"running", "stopping", "stopped"}) =>
        /\ Cardinality({i \in 1..Len(Enqueued) : Enqueued[i].kind = "none"}) = 1
        /\ Enqueued[Len(Enqueued)].kind = "none"

\* C18: while the event loop of a request stays closed, nothing more reaches
\* the consumer or the client (no item is scheduled, enqueued or dequeued,
\* no frame is emitted, the accumulator is unchanged), and any step of the
\* forwarding thread ends it.
C18_NoTokenAfterClose ==
    [][(loop_state = "closed" /\ loop_state' = "closed") =>
          /\ ready' = ready
          /\ queue' = queue
          /\ consumed' = consumed
          /\ frames' = frames
          /\ current_response' = current_response
          /\ fwd_pc' # fwd_pc => fwd_pc' = "exited"]_vars

\* after a disconnect the forwarding thread has stopped while the generate
\* thread was still running: it saw the closed loop or its enqueue failed
C18_Witness ==
    /\ sync_pc = "cancelled"
    /\ reqNo \in cancelled_early
    /\ loop_state = "closed"
    /\ fwd_pc = "exited"
    /\ engine = "running"
    /\ Len(produced) > Len(consumed)

\* C19: a request that has ended (its stream finished or was closed by the
\* client) and had started the generate thread has joined it.
C19_GenerateJoined ==
    (sync_pc \in {"ended", "cancelled"} /\ engine # "idle") => thread_joined

\* C20: once the loop of a request is closed, a forwarding thread that is
\* still in its loop eventually leaves it (or its threads are dropped with
\* the next request), unless the generate call it waits for has failed and
\* so neither yields nor finishes.
C20_ForwarderExits ==
    (loop_state = "closed" /\ fwd_pc \in {"next", "submit", "final_submit"})
        ~> (\/ fwd_pc \in {"exited", "idle"}
            \/ (fwd_pc = "next" /\ engine = "failed"))

\* after a disconnect the generate call has returned and the forwarding
\* thread has left its loop on the closed-loop test of line 129
C20_Witness ==
    /\ sync_pc = "cancelled"
    /\ reqNo \in cancelled_early
    /\ loop_state = "closed"
    /\ fwd_pc = "exited"
    /\ engine = "done"
    /\ ~thread_joined

\* C21: two get_conversation calls for the same conversation id that both
\* found it absent from the registry return the same Conversation object,
\* only one object is ever constructed for the id, and neither call raises.
C21_AtomicInsertIfAbsent ==
    /\ \A t \in Threads : threads[t].op = "get" => threads[t].status # "raised"
    /\ \A i, j \in DOMAIN returned :
          (/\ returned[i].conversation_id = returned[j].conversation_id
           /\ returned[i].fresh /\ returned[j].fresh)
          => returned[i].object = returned[j].object
    /\ \A k \in ConversationIds :
          Cardinality({o \in DOMAIN conversations : conversations[o].id = k}) <= 1

\* C22: the user turn of a request, in the in-memory history and in the
\* store, has the message text the client sent as its content.
C22_UserTurnIsClientText ==
    sync_pc \in {"running", "ended", "cancelled"} =>
        /\ \A i \in DOMAIN messages :
              (messages[i].role = "user" /\ messages[i].req = reqNo)
              => messages[i].content = client_message
        /\ \A i \in DOMAIN db_messages :
              (db_messages[i].role = "user" /\ db_messages[i].req = reqNo)
              => db_messages[i].content = client_message

RECURSIVE VisibleTexts(_)
VisibleTexts(items) ==
    IF items = <<>> THEN <<>>
    ELSE (IF Head(items).kind = "token" /\ Strip(Head(items).text) # <<>>
          THEN <<Head(items).text>> ELSE <<>>) \o VisibleTexts(Tail(items))

RECURSIVE FrameTexts(_)
FrameTexts(fs) ==
    IF fs = <<>> THEN <<>>
    ELSE (IF Head(fs).kind = "token" THEN <<Head(fs).text>> ELSE <<>>)
         \o FrameTexts(Tail(fs))

\* C23: the token frames of a request carry, in order and unchanged, exactly
\* the fragments received from the relay that are non-empty after trimming
\* whitespace, and the assistant turn committed for the request, in memory
\* and in the store, is the concatenation of the token frames' texts.
C23_FramesAreVisibleTokens ==
    sync_pc \in {"running", "yielded", "ended", "cancelled"} =>
        /\ FrameTexts(frames) = VisibleTexts(consumed)
        /\ \A i \in DOMAIN messages :
              IsAssistantOf(messages[i], reqNo)
              => messages[i].content = TokenText(frames)
        /\ \A i \in DOMAIN db_messages :
              IsAssistantOf(db_messages[i], reqNo)
              => db_messages[i].content = TokenText(frames)

\* a completed request that received a whitespace-only fragment and a
\* visible one, its assistant turn committed in memory and in the store
C23_Witness ==
    /\ sync_pc = "ended"
    /\ \E i \in DOMAIN consumed :
          consumed[i].kind = "token" /\ Strip(consumed[i].text) = <<>>
    /\ FrameTexts(frames) # <<>>
    /\ AssistantRowOf(reqNo) # {}
    /\ \E i \in DOMAIN messages : IsAssistantOf(messages[i], reqNo)

IsPrefix(a, b) == Len(a) <= Len(b) /\ a = SubSeq(b, 1, Len(a))

\* C24: while two requests stream at once, the token frames of each request
\* carry fragments of that request's own generation, in production order,
\* and its accumulated assistant text is the text of its own frames.
C24_OwnRelay ==
    \A r \in Requests :
        /\ IsPrefix(FrameTexts(consumers[r].frames), streamers[r])
        /\ consumers[r].response = TokenText(consumers[r].frames)

\* both requests are in the middle of their streams, each has delivered a
\* token frame and has more fragments under way
C24_Witness ==
    \A r \in Requests :
        /\ consumers[r].pc = "tokens"
        /\ consumers[r].sync \in {"running", "yielded"}
        /\ FrameTexts(consumers[r].frames) # <<>>
        /\ Len(streamers[r]) > Len(FrameTexts(consumers[r].frames))

\* C25: a request that has been started ends with a frame whose continuing
\* flag is false and its generator terminates, unless the engine fails or
\* the client disconnects (the store accepts every write of the request).
C25_RequestTerminates ==
    (sync_pc = "running" /\ ctl_pc = "start")
    ~> \/ /\ sync_pc = "ended"
          /\ ctl_pc = "finished"
          /\ frames # <<>>
          /\ ~frames[Len(frames)].continuing
       \/ engine = "failed"
       \/ sync_pc = "cancelled"

\* the request has ended with its final frame after token frames, the
\* engine having finished normally and the client still connected
C25_Witness ==
    /\ reqNo = MaxRequests
    /\ sync_pc = "ended"
    /\ ctl_pc = "finished"
    /\ engine = "done"
    /\ FrameTexts(frames) # <<>>
    /\ frames[Len(frames)] = FinalFrame

\* C26: a DELETE request for a conversation answers with the success message
\* and leaves the conversation's session with an empty in-memory history.
C26_ClearSucceeds ==
    \A t \in Threads :
        threads[t].op = "clear" =>
            LET k == threads[t].conversation_id
            IN /\ threads[t].status = "cleared"
               /\ user_conversations[k] # 0
               /\ conversations[user_conversations[k]].messages = <<>>

RolesAndContents(seq) ==
    [i \in 1..Len(seq) |-> <<seq[i].role, seq[i].content>>]

\* C27: once a request has completed, the session's in-memory history holds
\* exactly one user turn and one assistant turn of it, alternates user,
\* assistant from its first turn on, and has the same (role, content)
\* sequence as the store.
C27_MemoryAlternates ==
    (registered /\ reqNo \in completed /\ faults = 0
     /\ ctl_pc \in {"title_yielded", "final_yielded", "finished"}) =>
        /\ Cardinality({i \in DOMAIN messages :
                          messages[i].role = "user" /\ messages[i].req = reqNo}) = 1
        /\ Cardinality({i \in DOMAIN messages : IsAssistantOf(messages[i], reqNo)}) = 1
        /\ \A i \in DOMAIN messages :
              messages[i].role = IF i % 2 = 1 THEN "user" ELSE "assistant"
        /\ RolesAndContents(messages) = RolesAndContents(db_messages)

\* C28: the chat history formatted for the engine has one entry for every
\* entry of the windowed prompt, in order, with the entry's content and role
\* (the system prompt entry and the user turns as "user", the assistant
\* turns as "assistant").
C28_PromptReachesEngine ==
    fn_pc = "formatted" =>
        LET p == prepare_messages_for_model(fn_in, fn_max, fn_sys)
        IN /\ Len(fn_out) = Len(p)
           /\ \A i \in 1..Len(p) :
                 /\ fn_out[i].content = p[i].content
                 /\ fn_out[i].role = IF p[i].type = "human" THEN "user" ELSE "assistant"

\* C29: when the last frame of a request is an error frame, no assistant
\* turn of that request is in the session's in-memory history or in the
\* store.
C29_NoCommitOnError ==
    (/\ sync_pc \in {"running", "yielded", "ended", "cancelled"}
     /\ frames # <<>>
     /\ frames[Len(frames)].kind = "error") =>
        /\ \A i \in DOMAIN messages : ~IsAssistantOf(messages[i], reqNo)
        /\ \A i \in DOMAIN db_messages : ~IsAssistantOf(db_messages[i], reqNo)

\* C30: a get_conversation call that starts after an earlier call for the
\* same conversation id has returned, returns the same Conversation object.
C30_EntryNeverReplaced ==
    \A i, j \in DOMAIN returned :
        (/\ i < j
         /\ returned[i].conversation_id = returned[j].conversation_id
         /\ returned[j].since >= i)
        => returned[j].object = returned[i].object

\* C31: a get_conversation call for a conversation id that has a record in
\* the store when the call starts does not attempt an insert and does not
\* raise.
C31_InsertOnlyIfAbsent ==
    \A t \in Threads :
        (threads[t].op = "get" /\ threads[t].had_record)
        => (threads[t].pc # "add" /\ threads[t].status # "raised")

\* C32: every stored turn of a conversation was written by a request of the
\* user who owns the conversation's record, and a session holding the
\* conversation's history is registered only for that user.
C32_ChatChecksOwner ==
    \A c \in ConversationIds :
        /\ \A i \in DOMAIN cm_table[c] :
              uc_table[c].present /\ cm_table[c][i].by = uc_table[c].user_id
        /\ \A u \in Users :
              sessions[<<u, c>>].registered => uc_table[c].user_id = u

\* C33: the timestamp stored for the assistant turn of a request is the
\* creation timestamp of the assistant turn appended to the session's
\* in-memory history for that request.
C33_StoredTimestampIsTurns ==
    \A i \in DOMAIN db_messages, j \in DOMAIN messages :
        (IsAssistantOf(db_messages[i], reqNo) /\ IsAssistantOf(messages[j], reqNo))
        => FromIsoFormat(db_messages[i].timestamp) = messages[j].timestamp

\* C34: in the in-memory app, whenever no request is between its first
\* append and its store, conversations[id] holds at most 2 * MAX_HISTORY
\* entries, they are the latest entries of the requests that completed, in
\* the order of completion, none of a request that did not complete, and
\* they alternate user, assistant.
C34_LegacyHistory ==
    LET stored == IF legacy_conversations = 0 THEN <<>>
                  ELSE legacy_lists[legacy_conversations]
    IN (\A t \in Threads :
           legacy_threads[t].pc \notin {"append_assistant", "trim", "store"})
       => /\ Len(stored) <= 2 * MAX_HISTORY
          /\ stored = LastN(legacy_log, 2 * MAX_HISTORY)
          /\ \A i \in DOMAIN stored :
                stored[i].role = IF i % 2 = 1 THEN "user" ELSE "assistant"

====
